---- MODULE Spec2Model ----
(***************************************************************************)
(* Colosseum breakout dashboard: the record validator, the client-side     *)
(* search/filter/sort engine with its result cache, and the debounce       *)
(* controller of the useSearch hook.                                       *)
(*                                                                         *)
(* A JavaScript string is a sequence of one-character strings; a           *)
(* JavaScript value of unknown type is a record tagged by its type.        *)
(***************************************************************************)
EXTENDS Integers, Sequences, FiniteSets, TLC

VARIABLES
    projects,          \* useSearch argument: the validated project list
    filters,           \* useState filters (immediate UI state)
    debouncedFilters,  \* useState debouncedFilters (the applied spec)
    isSearching,       \* useState isSearching
    timers,            \* the pending setTimeout callbacks of the page
    debounceRef,       \* debounceRef.current: a timer id, or NoTimer
    urlSyncRef,        \* urlSyncRef.current: a timer id, or NoTimer
    cache,             \* cacheRef.current: Map in insertion order
    filteredProjects,  \* the memoised performSearch(debouncedFilters)
    url,               \* window.location.search without the leading "?"
    lastCall,          \* what the last performSearch call did
    filtersId,         \* identity of the filters object (Object.is)
    debouncedId,       \* identity of the debouncedFilters object
    changes,           \* number of filter / dataset changes made so far
    raw,               \* validateProject argument
    validated          \* validateProject result

VARIABLES
    batchData,         \* validateProjects argument
    validProjects,     \* validateProjects result
    sanitizeInput,     \* sanitizeString argument
    sanitizeOutput,    \* sanitizeString result
    pageLoads          \* number of times the page was loaded

\* ProjectsProvider
VARIABLES
    providerProjects,  \* useState projects
    loading,           \* useState loading
    lastFetch,         \* useState lastFetch: a time in ms, or Null
    error,             \* useState error: a message, or Null
    initialLoaded,     \* useState initialLoaded
    isRefreshing,      \* useState isRefreshing
    refreshCount,      \* useState refreshCount
    fetches,           \* the fetchData calls waiting for their response
    started,           \* number of fetchData calls made so far
    settled,           \* the last fetchData call that ended and its response
    mounted,           \* the mount effect (loadInitialData) has run
    now                \* Date.now() in ms

\* GET /api/projects (route.ts) and its apiRateLimiter
VARIABLES
    limiterCalls,      \* apiRateLimiter.calls: the times of admitted calls
    routeCache,        \* the module-level cache of route.ts
    upstream,          \* the GET request waiting for the upstream fetch
    upstreamCalls,     \* number of upstream fetches made so far
    requests,          \* number of GET requests received so far
    admitted,          \* the times at which the limiter admitted a request
    lastResponse,      \* the response sent last
    serverNow,         \* Date.now() of the server in ms
    clockSteps         \* number of times the server clock was advanced

\* apiCallWithRetry of the standalone script
VARIABLES
    retryPc,           \* "idle", "calling", "sleeping" or "done"
    retryMax,          \* the maxRetries argument
    retryAttempt,      \* the loop variable attempt
    retryInvocations,  \* number of invocations of the wrapped call
    retryOutcomes,     \* what each settled invocation delivered
    retryDelay,        \* the delay of the running setTimeout, in ms
    retryReturn        \* how the function ended

\* the SQLite store of the standalone script and getProjectTrends
VARIABLES
    dbProjects,        \* the ids of the rows of table projects
    dbMetrics,         \* the rows of table project_metrics, in rowid order
    scriptNow,         \* Date.now() of the script, in seconds
    scriptSteps,       \* number of times the script clock was advanced
    trendQuery,        \* the period and threshold of the getProjectTrends call
    trends             \* what getProjectTrends returned

\* the main run of the standalone script
VARIABLES
    mainPc,            \* "idle", "fetching" or "done"
    mainOptions,       \* the command-line options of the run
    mainEnv,           \* the environment of the run: cached file, settings
    apiDelivered,      \* fetchProjectsFromAPI returned projects in this run
    dataSource,        \* where the projects of the run came from
    mainProjects,      \* the variable projects of main
    exitCode           \* the exit code of the process

VARIABLES
    tableProjects,     \* the projects prop of ProjectsTable
    currentPage,       \* useState currentPage
    itemsPerPage,      \* useState itemsPerPage
    tableRows,         \* paginatedProjects as last rendered
    tableEffects,      \* TRUE while the effects of the last render are due
    tableSort,         \* sortBy and sortOrder of the filters prop
    recentSearches,    \* useState recentSearches
    recentMax,         \* the maxSearches argument of useRecentSearches
    recentStamp,       \* for each query, the number of the call that added it last
    recentCalls        \* the number of calls made on the hook

batchVars == <<batchData, validProjects>>

sanitizerVars == <<sanitizeInput, sanitizeOutput>>

pageVars == <<pageLoads>>

providerVars == <<providerProjects, loading, lastFetch, error, initialLoaded,
                  isRefreshing, refreshCount, fetches, started, settled,
                  mounted, now>>

\* the state of the components other than useSearch and validateProject
routeVars == <<limiterCalls, routeCache, upstream, upstreamCalls, requests,
               admitted, lastResponse, serverNow, clockSteps>>

retryVars == <<retryPc, retryMax, retryAttempt, retryInvocations,
               retryOutcomes, retryDelay, retryReturn>>

trendVars == <<dbProjects, dbMetrics, scriptNow, scriptSteps, trendQuery,
               trends>>

mainVars == <<mainPc, mainOptions, mainEnv, apiDelivered, dataSource,
              mainProjects, exitCode>>

tableVars == <<tableProjects, currentPage, itemsPerPage, tableRows,
               tableEffects, tableSort>>

recentVars == <<recentSearches, recentMax, recentStamp, recentCalls>>

componentVars == <<tableVars, recentVars>>

scriptVars == <<retryVars, trendVars, mainVars, componentVars>>

otherVars == <<batchVars, sanitizerVars, pageVars, providerVars, routeVars,
               scriptVars>>

vars == <<projects, filters, debouncedFilters, isSearching, timers,
          debounceRef, urlSyncRef, cache, filteredProjects, url, lastCall,
          filtersId, debouncedId, changes, raw, validated, otherVars>>

hookVars == <<projects, filters, debouncedFilters, isSearching, timers,
              debounceRef, urlSyncRef, cache, filteredProjects, url,
              lastCall, filtersId, debouncedId, changes>>

validatorVars == <<raw, validated>>

-----------------------------------------------------------------------------
(* JavaScript values *)

Undef == [t |-> "undefined"]

Null == [t |-> "null"]

NaN == [t |-> "nan"]

Num(n) == [t |-> "number", v |-> n]

Str(s) == [t |-> "string", v |-> s]

Bool(b) == [t |-> "boolean", v |-> b]

Arr(a) == [t |-> "array", v |-> a]

Obj(o) == [t |-> "object", v |-> o]

\* typeof v
Typeof(v) ==
    CASE v.t = "nan" -> "number"
      [] v.t = "null" -> "object"
      [] v.t = "array" -> "object"
      [] OTHER -> v.t

\* !v
Falsy(v) ==
    \/ v.t \in {"undefined", "null", "nan"}
    \/ v.t = "number" /\ v.v = 0
    \/ v.t = "string" /\ v.v = <<>>
    \/ v.t = "boolean" /\ ~v.v

\* obj.key for a value that may or may not be an object carrying the key
Prop(o, key) ==
    IF o.t = "object" /\ key \in DOMAIN o.v THEN o.v[key] ELSE Undef

-----------------------------------------------------------------------------
(* Strings *)

Lowers == <<"a", "b", "c", "d", "e", "f", "g", "h", "i", "j", "k", "l", "m",
            "n", "o", "p", "q", "r", "s", "t", "u", "v", "w", "x", "y", "z">>

Uppers == <<"A", "B", "C", "D", "E", "F", "G", "H", "I", "J", "K", "L", "M",
            "N", "O", "P", "Q", "R", "S", "T", "U", "V", "W", "X", "Y", "Z">>

\* the characters of the model in code-unit order
Alphabet == <<" ", "-", "/", ":", "<", ">">> \o Uppers \o Lowers

Code(c) == CHOOSE i \in 1..Len(Alphabet) : Alphabet[i] = c

LowerChar(c) ==
    IF \E i \in 1..Len(Uppers) : Uppers[i] = c
    THEN Lowers[CHOOSE i \in 1..Len(Uppers) : Uppers[i] = c]
    ELSE c

\* String.prototype.toLowerCase
ToLowerCase(s) == [i \in 1..Len(s) |-> LowerChar(s[i])]

\* String.prototype.includes
Includes(s, t) ==
    \E i \in 1..(Len(s) - Len(t) + 1) : SubSeq(s, i, i + Len(t) - 1) = t

IsSpace(c) == c = " "

RECURSIVE TrimStart(_)
TrimStart(s) ==
    IF s # <<>> /\ IsSpace(Head(s)) THEN TrimStart(Tail(s)) ELSE s

RECURSIVE TrimEnd(_)
TrimEnd(s) ==
    IF s # <<>> /\ IsSpace(s[Len(s)])
    THEN TrimEnd(SubSeq(s, 1, Len(s) - 1))
    ELSE s

\* String.prototype.trim
Trim(s) == TrimEnd(TrimStart(s))

\* String.prototype.slice(0, n)
Slice(s, n) == SubSeq(s, 1, IF Len(s) < n THEN Len(s) ELSE n)

\* s.split(/\s+/).filter(Boolean): the maximal runs of non-space characters
RECURSIVE SplitWords(_, _)
SplitWords(s, word) ==
    IF s = <<>>
    THEN (IF word = <<>> THEN <<>> ELSE <<word>>)
    ELSE IF IsSpace(Head(s))
         THEN (IF word = <<>> THEN <<>> ELSE <<word>>)
              \o SplitWords(Tail(s), <<>>)
         ELSE SplitWords(Tail(s), Append(word, Head(s)))

\* Array.prototype.join(sep) over strings
RECURSIVE Join(_, _)
Join(parts, sep) ==
    IF parts = <<>> THEN <<>>
    ELSE IF Len(parts) = 1 THEN parts[1]
    ELSE parts[1] \o sep \o Join(Tail(parts), sep)

\* s.split(sep).filter(Boolean) for a one-character separator
RECURSIVE SplitOn(_, _, _)
SplitOn(s, sep, part) ==
    IF s = <<>>
    THEN (IF part = <<>> THEN <<>> ELSE <<part>>)
    ELSE IF Head(s) = sep
         THEN (IF part = <<>> THEN <<>> ELSE <<part>>)
              \o SplitOn(Tail(s), sep, <<>>)
         ELSE SplitOn(Tail(s), sep, Append(part, Head(s)))

\* a < b on strings: code-unit lexicographic order
RECURSIVE StrLess(_, _)
StrLess(a, b) ==
    IF b = <<>> THEN FALSE
    ELSE IF a = <<>> THEN TRUE
    ELSE IF Head(a) = Head(b) THEN StrLess(Tail(a), Tail(b))
    ELSE Code(Head(a)) < Code(Head(b))

\* s.replace(/[<>]/g, '')
RECURSIVE StripAngles(_)
StripAngles(s) ==
    IF s = <<>> THEN <<>>
    ELSE IF Head(s) \in {"<", ">"} THEN StripAngles(Tail(s))
    ELSE <<Head(s)>> \o StripAngles(Tail(s))

\* s.replace(/pat/gi, ''): one left-to-right pass over non-overlapping matches
RECURSIVE RemoveAllCI(_, _)
RemoveAllCI(s, pat) ==
    IF Len(s) < Len(pat) THEN s
    ELSE IF ToLowerCase(SubSeq(s, 1, Len(pat))) = pat
         THEN RemoveAllCI(SubSeq(s, Len(pat) + 1, Len(s)), pat)
         ELSE <<Head(s)>> \o RemoveAllCI(Tail(s), pat)

-----------------------------------------------------------------------------
(* Record validator *)

SANITIZE_MAX_LENGTH == 1000

TWITTER_MAX_LENGTH == 15

TEAM_MAX_MEMBERS == 20

TRACKS_MAX == 10

JavascriptScheme == <<"j", "a", "v", "a", "s", "c", "r", "i", "p", "t", ":">>

DataScheme == <<"d", "a", "t", "a", ":">>

\* sanitizeString calls input.replace on every truthy input: a truthy value
\* that is not a string has no replace method and the call throws TypeError
sanitizeStringThrows(input) == ~Falsy(input) /\ input.t # "string"

sanitizeString(input) ==
    IF Falsy(input) THEN <<>>
    ELSE Trim(Slice(RemoveAllCI(RemoveAllCI(StripAngles(input.v),
                                            JavascriptScheme),
                                DataScheme),
                    SANITIZE_MAX_LENGTH))

\* Math.max(0, n) on integers
Max0(n) == IF n < 0 THEN 0 ELSE n

\* Math.max(0, Math.floor(v || 0)); the strings of the model hold no digits,
\* so a non-blank string converts to NaN, as does an object
RECURSIVE floorOrZero(_)
floorOrZero(v) ==
    CASE Falsy(v) -> Num(0)
      [] v.t = "number" -> Num(Max0(v.v))
      [] v.t = "boolean" -> Num(1)
      [] v.t = "string" -> IF Trim(v.v) = <<>> THEN Num(0) ELSE NaN
      [] v.t = "array" ->
            IF v.v = <<>> THEN Num(0)
            ELSE IF Len(v.v) = 1
                 THEN (IF v.v[1].t \in {"undefined", "null"} THEN Num(0)
                       ELSE IF v.v[1].t \in {"number", "string"}
                            THEN floorOrZero(v.v[1])
                       ELSE NaN)
                 ELSE NaN
      [] OTHER -> NaN

IsLetter(c) ==
    \/ \E i \in 1..Len(Lowers) : Lowers[i] = c
    \/ \E i \in 1..Len(Uppers) : Uppers[i] = c

\* the position of the first ":" of s, or 0
FirstColon(s) ==
    IF \E i \in 1..Len(s) : s[i] = ":"
    THEN CHOOSE i \in 1..Len(s) :
            s[i] = ":" /\ \A j \in 1..(i - 1) : s[j] # ":"
    ELSE 0

RECURSIVE StripSlashes(_)
StripSlashes(s) ==
    IF s # <<>> /\ Head(s) = "/" THEN StripSlashes(Tail(s)) ELSE s

\* new URL(s) succeeds: a scheme of letters, a colon and, for http(s), a host
UrlParses(s) ==
    LET c == FirstColon(s) IN
    /\ c > 1
    /\ \A i \in 1..(c - 1) : IsLetter(s[i])
    /\ ToLowerCase(SubSeq(s, 1, c)) \in
          {<<"h", "t", "t", "p", ":">>, <<"h", "t", "t", "p", "s", ":">>}
          => StripSlashes(SubSeq(s, c + 1, Len(s))) # <<>>

\* new URL(s).protocol
UrlProtocol(s) == ToLowerCase(SubSeq(s, 1, FirstColon(s)))

validateUrl(u) ==
    IF Falsy(u) \/ Typeof(u) # "string" THEN <<>>
    ELSE LET sanitized == sanitizeString(u) IN
         IF ~UrlParses(sanitized) THEN <<>>
         ELSE IF UrlProtocol(sanitized) \notin
                    {<<"h", "t", "t", "p", ":">>,
                     <<"h", "t", "t", "p", "s", ":">>}
              THEN <<>>
              ELSE sanitized

RECURSIVE KeepLetters(_)
KeepLetters(s) ==
    IF s = <<>> THEN <<>>
    ELSE IF IsLetter(Head(s)) THEN <<Head(s)>> \o KeepLetters(Tail(s))
    ELSE KeepLetters(Tail(s))

\* the model's alphabet has no digit and no underscore
sanitizeTwitterHandle(handle) ==
    IF Falsy(handle) \/ Typeof(handle) # "string" THEN <<>>
    ELSE Trim(Slice(KeepLetters(handle.v), TWITTER_MAX_LENGTH))

\* the date strings Date can parse, each with its toISOString() form
IsoDate == <<"2", "5", "-", "0", "1", "Z">>

LooseDate == <<"J", "a", "n", " ", "2", "5">>

\* new Date().toISOString()
NowIso == <<"n", "o", "w", "Z">>

validateDate(dateStr) ==
    IF Falsy(dateStr) \/ Typeof(dateStr) # "string" THEN NowIso
    ELSE IF dateStr.v \in {IsoDate, LooseDate} THEN IsoDate
    ELSE NowIso

\* member && typeof member === 'object'
IsObjectLike(v) == ~Falsy(v) /\ Typeof(v) = "object"

RECURSIVE FilterSeq(_, _)
FilterSeq(s, keep) ==
    IF s = <<>> THEN <<>>
    ELSE IF Head(s) \in keep THEN <<Head(s)>> \o FilterSeq(Tail(s), keep)
    ELSE FilterSeq(Tail(s), keep)

Range(s) == {s[i] : i \in DOMAIN s}

validateTeamMember(member) ==
    [id |-> floorOrZero(Prop(member, "id")),
     username |-> sanitizeString(Prop(member, "username")),
     aboutYou |-> sanitizeString(Prop(member, "aboutYou")),
     displayName |-> sanitizeString(Prop(member, "displayName")),
     avatarUrl |-> validateUrl(Prop(member, "avatarUrl")),
     isEditor |-> ~Falsy(Prop(member, "isEditor"))]

validateTeamMemberThrows(member) ==
    \E k \in {"username", "aboutYou", "displayName"} :
        sanitizeStringThrows(Prop(member, k))

\* the members that pass the filter of validateTeamMembers, in order
TeamMemberObjects(members) ==
    IF members.t # "array" THEN <<>>
    ELSE FilterSeq(members.v, {m \in Range(members.v) : IsObjectLike(m)})

\* map() runs over every filtered member before slice(0, 20) is applied
validateTeamMembersThrows(members) ==
    \E m \in Range(TeamMemberObjects(members)) : validateTeamMemberThrows(m)

validateTeamMembers(members) ==
    LET objs == TeamMemberObjects(members) IN
    Slice([i \in 1..Len(objs) |-> validateTeamMember(objs[i])],
          TEAM_MAX_MEMBERS)

validateTracks(tracks) ==
    IF tracks.t # "array" THEN <<>>
    ELSE LET strs == FilterSeq(tracks.v,
                        {x \in Range(tracks.v) :
                            ~Falsy(x) /\ Typeof(x) = "string"})
             clean == [i \in 1..Len(strs) |-> sanitizeString(strs[i])]
         IN Slice(FilterSeq(clean, {x \in Range(clean) : Len(x) > 0}),
                  TRACKS_MAX)

validateImageThrows(image) ==
    /\ ~Falsy(image) /\ Typeof(image) = "object"
    /\ \E k \in {"name", "mimetype", "uid"} :
          sanitizeStringThrows(Prop(image, k))

validateImage(image) ==
    IF Falsy(image) \/ Typeof(image) # "object"
    THEN [id |-> Num(0), name |-> <<>>, url |-> <<>>, mimetype |-> <<>>,
          size |-> Num(0), uid |-> <<>>]
    ELSE [id |-> floorOrZero(Prop(image, "id")),
          name |-> sanitizeString(Prop(image, "name")),
          url |-> validateUrl(Prop(image, "url")),
          mimetype |-> sanitizeString(Prop(image, "mimetype")),
          size |-> floorOrZero(Prop(image, "size")),
          uid |-> sanitizeString(Prop(image, "uid"))]

\* data.teamMembers ? data.teamMembers.length : 1
rawTeamSize(members) ==
    IF Falsy(members) THEN Num(1)
    ELSE IF members.t \in {"array", "string"} THEN Num(Len(members.v))
    ELSE Prop(members, "length")

\* `project-${data.id}`: the id is kept as the tail of the slug
projectSlug(id) == <<"p", "r", "o", "j", "e", "c", "t", "-", ToString(id)>>

\* a statement of the try block of validateProject throws
validateProjectThrows(data) ==
    \/ \E k \in {"slug", "description", "country", "additionalInfo",
                 "universityName", "randomOrder"} :
          sanitizeStringThrows(Prop(data, k))
    \/ validateTeamMembersThrows(Prop(data, "teamMembers"))
    \/ validateImageThrows(Prop(data, "image"))

\* the Project literal of validateProject
buildProject(data) ==
    [id |-> Max0(data.v.id.v),
     name |-> sanitizeString(data.v.name),
     slug |-> IF sanitizeString(Prop(data, "slug")) # <<>>
              THEN sanitizeString(Prop(data, "slug"))
              ELSE projectSlug(data.v.id.v),
     description |-> sanitizeString(Prop(data, "description")),
     repoLink |-> validateUrl(Prop(data, "repoLink")),
     country |-> sanitizeString(Prop(data, "country")),
     presentationLink |-> validateUrl(Prop(data, "presentationLink")),
     technicalDemoLink |-> validateUrl(Prop(data, "technicalDemoLink")),
     twitterHandle |-> sanitizeTwitterHandle(Prop(data, "twitterHandle")),
     additionalInfo |-> sanitizeString(Prop(data, "additionalInfo")),
     ownerId |-> floorOrZero(Prop(data, "ownerId")),
     submittedAt |-> validateDate(Prop(data, "submittedAt")),
     hackathonId |-> floorOrZero(Prop(data, "hackathonId")),
     isUniversityProject |-> ~Falsy(Prop(data, "isUniversityProject")),
     universityName |-> sanitizeString(Prop(data, "universityName")),
     teamSize |-> rawTeamSize(Prop(data, "teamMembers")),
     teamMembers |-> validateTeamMembers(Prop(data, "teamMembers")),
     likes |-> floorOrZero(Prop(data, "likes")),
     comments |-> floorOrZero(Prop(data, "comments")),
     image |-> validateImage(Prop(data, "image")),
     tracks |-> validateTracks(Prop(data, "tracks")),
     prize |-> IF Falsy(Prop(data, "prize")) THEN Null
               ELSE Prop(data, "prize"),
     randomOrder |-> IF sanitizeString(Prop(data, "randomOrder")) # <<>>
                     THEN sanitizeString(Prop(data, "randomOrder"))
                     ELSE <<"0">>]

\* an exception leaving a function
Thrown == [t |-> "thrown"]

\* validateProject with the try block left without its catch
validateProjectNoCatch(d) ==
    IF Falsy(d) \/ Typeof(d) # "object" THEN Null
    ELSE IF Falsy(Prop(d, "id")) \/ Typeof(Prop(d, "id")) # "number"
         THEN Null
    ELSE IF Falsy(Prop(d, "name")) \/ Typeof(Prop(d, "name")) # "string"
         THEN Null
    ELSE IF validateProjectThrows(d) THEN Thrown
    ELSE buildProject(d)

\* validateProject: null, or the sanitized Project
validateProject(data) ==
    IF Falsy(data) \/ Typeof(data) # "object" THEN Null
    ELSE IF Falsy(Prop(data, "id")) \/ Typeof(Prop(data, "id")) # "number"
         THEN Null
    ELSE IF Falsy(Prop(data, "name")) \/ Typeof(Prop(data, "name")) # "string"
         THEN Null
    ELSE IF validateProjectThrows(data) THEN Null
    ELSE buildProject(data)

\* validateProjects
RECURSIVE validItems(_)
validItems(items) ==
    IF items = <<>> THEN <<>>
    ELSE LET p == validateProject(Head(items)) IN
         (IF p = Null THEN <<>> ELSE <<p>>) \o validItems(Tail(items))

validateProjects(d) ==
    IF d.t # "array" THEN <<>> ELSE validItems(d.v)

\* the for loop of validateProjects has no try block of its own: an
\* exception leaving validateProject would leave validateProjects
validateProjectsThrows(d) ==
    d.t = "array" /\ \E i \in 1..Len(d.v) : validateProject(d.v[i]) = Thrown

-----------------------------------------------------------------------------
(* Search index and search/filter/sort engine (useSearch.ts) *)

DEFAULT_TEAM_MIN == 1

DEFAULT_TEAM_MAX == 50

DEFAULT_LIKES_MIN == 0

DEFAULT_LIKES_MAX == 100

DEFAULT_FILTERS ==
    [search |-> <<>>,
     tracks |-> <<>>,
     countries |-> <<>>,
     teamSizeRange |-> <<DEFAULT_TEAM_MIN, DEFAULT_TEAM_MAX>>,
     likesRange |-> <<DEFAULT_LIKES_MIN, DEFAULT_LIKES_MAX>>,
     sortBy |-> "likes",
     sortOrder |-> "desc"]

\* v || 0 for a numeric field
OrZero(v) == IF Falsy(v) THEN 0 ELSE v.v

\* one entry of the searchIndex memo
indexEntry(project) ==
    [id |-> project.id,
     searchableText |->
        Trim(ToLowerCase(Join(<<project.name, project.description>>,
                              <<" ">>))),
     normalizedName |-> ToLowerCase(project.name),
     normalizedDescription |-> ToLowerCase(project.description),
     normalizedCountry |-> ToLowerCase(project.country),
     normalizedTracks |->
        [i \in 1..Len(project.tracks) |-> ToLowerCase(project.tracks[i])],
     teamSize |-> IF Len(project.teamMembers) = 0 THEN 1
                  ELSE Len(project.teamMembers),
     project |-> project]

searchIndex(projectList) ==
    [i \in 1..Len(projectList) |-> indexEntry(projectList[i])]

\* cacheKey with the two ranges left out of the serialization
cacheKeyWithoutRanges(f) ==
    <<f.search, f.tracks, f.countries, f.sortBy, f.sortOrder>>

\* JSON.stringify(currentFilters): the values in the key order of the object
cacheKey(f) ==
    <<f.search, f.tracks, f.countries, f.teamSizeRange, f.likesRange,
      f.sortBy, f.sortOrder>>

\* the score the filter callback computes for one item; 0 drops the item
itemScore(item, searchTerm) ==
    IF Includes(item.normalizedName, searchTerm) THEN 100
    ELSE IF Includes(item.normalizedDescription, searchTerm) THEN 80
    ELSE IF \E term \in Range(SplitWords(searchTerm, <<>>)) :
                Includes(item.searchableText, term)
         THEN 30
         ELSE 0

\* scores.get(id) || 0 after the filter pass: scores is keyed by the item id,
\* so the last matching item with an id decides the score of that id
scoreOfId(index, searchTerm, id) ==
    LET hits == {i \in 1..Len(index) :
                    index[i].id = id /\ itemScore(index[i], searchTerm) > 0}
    IN IF hits = {} THEN 0
       ELSE itemScore(index[CHOOSE i \in hits : \A j \in hits : j <= i],
                      searchTerm)

\* Array.prototype.sort with comparator cmp, where neg holds the pairs
\* <<a, b>> with cmp(a, b) < 0: each element is inserted into the sorted
\* prefix before every trailing element it compares below
RECURSIVE insertSorted(_, _, _)
insertSorted(sorted, x, neg) ==
    IF sorted = <<>> THEN <<x>>
    ELSE LET last == sorted[Len(sorted)] IN
         IF <<x, last>> \in neg
         THEN Append(insertSorted(SubSeq(sorted, 1, Len(sorted) - 1), x, neg),
                     last)
         ELSE Append(sorted, x)

RECURSIVE sortWith(_, _)
sortWith(s, neg) ==
    IF s = <<>> THEN <<>>
    ELSE insertSorted(sortWith(SubSeq(s, 1, Len(s) - 1), neg), s[Len(s)], neg)

\* lines 91-133: text search with scoring, then sort by relevance
textSearch(index, f) ==
    LET searchTerm == ToLowerCase(f.search)
        kept == FilterSeq(index, {it \in Range(index) :
                                    itemScore(it, searchTerm) > 0})
        neg == {pr \in Range(kept) \X Range(kept) :
                    scoreOfId(index, searchTerm, pr[2].id)
                    - scoreOfId(index, searchTerm, pr[1].id) < 0}
    IN sortWith(kept, neg)

searchActive(f) == Len(f.search) >= 2

\* trackFilter with the requested tracks taken as written
trackFilterCaseSensitive(items, f) ==
    IF Len(f.tracks) > 0
    THEN FilterSeq(items, {it \in Range(items) :
                             \E t \in Range(it.normalizedTracks) :
                                t \in Range(f.tracks)})
    ELSE items

\* lines 135-141
trackFilter(items, f) ==
    IF Len(f.tracks) > 0
    THEN LET trackSet == {ToLowerCase(t) : t \in Range(f.tracks)} IN
         FilterSeq(items, {it \in Range(items) :
                             \E t \in Range(it.normalizedTracks) :
                                t \in trackSet})
    ELSE items

\* lines 143-148
countryFilter(items, f) ==
    IF Len(f.countries) > 0
    THEN LET countrySet == {ToLowerCase(c) : c \in Range(f.countries)} IN
         FilterSeq(items, {it \in Range(items) :
                             it.normalizedCountry \in countrySet})
    ELSE items

\* lines 150-156
teamSizeFilter(items, f) ==
    IF f.teamSizeRange[1] > DEFAULT_TEAM_MIN
       \/ f.teamSizeRange[2] < DEFAULT_TEAM_MAX
    THEN FilterSeq(items, {it \in Range(items) :
                             /\ it.teamSize >= f.teamSizeRange[1]
                             /\ it.teamSize <= f.teamSizeRange[2]})
    ELSE items

likesFilterApplies(f) ==
    f.likesRange[1] > DEFAULT_LIKES_MIN \/ f.likesRange[2] < DEFAULT_LIKES_MAX

\* lines 158-164
likesFilter(items, f) ==
    IF likesFilterApplies(f)
    THEN FilterSeq(items, {it \in Range(items) :
                             /\ OrZero(it.project.likes) >= f.likesRange[1]
                             /\ OrZero(it.project.likes) <= f.likesRange[2]})
    ELSE items

\* the switch of the final comparator: the key and whether it is a string
sortKey(item, sortBy) ==
    CASE sortBy = "likes" -> [str |-> FALSE, n |-> OrZero(item.project.likes)]
      [] sortBy = "comments" ->
            [str |-> FALSE, n |-> OrZero(item.project.comments)]
      [] sortBy = "name" -> [str |-> TRUE, s |-> item.project.name]
      [] sortBy = "country" -> [str |-> TRUE, s |-> item.project.country]
      [] OTHER -> [str |-> FALSE, n |-> OrZero(item.project.likes)]

\* aValue < bValue
keyLess(a, b) == IF a.str THEN StrLess(a.s, b.s) ELSE a.n < b.n

\* finalCompareNegative with sortOrder ignored: always the desc branch
finalCompareIgnoringOrder(a, b, f) ==
    ~keyLess(sortKey(a, f.sortBy), sortKey(b, f.sortBy))

\* the final comparator is negative unless a > b (asc) or a < b (desc)
finalCompareNegative(a, b, f) ==
    IF f.sortOrder = "asc"
    THEN ~keyLess(sortKey(b, f.sortBy), sortKey(a, f.sortBy))
    ELSE ~keyLess(sortKey(a, f.sortBy), sortKey(b, f.sortBy))

\* finalSort without the test that skips it for an active text search
finalSortAlways(items, f) ==
    sortWith(items, {pr \in Range(items) \X Range(items) :
                        finalCompareNegative(pr[1], pr[2], f)})

\* lines 166-197
finalSort(items, f) ==
    IF ~searchActive(f)
    THEN sortWith(items, {pr \in Range(items) \X Range(items) :
                            finalCompareNegative(pr[1], pr[2], f)})
    ELSE items

\* lines 89-199: the result computed on a cache miss
computeResults(index, f) ==
    LET afterText == IF searchActive(f) THEN textSearch(index, f) ELSE index
        filtered == finalSort(
                        likesFilter(
                            teamSizeFilter(
                                countryFilter(
                                    trackFilter(afterText, f), f), f), f), f)
    IN [i \in 1..Len(filtered) |-> filtered[i].project]

CACHE_LIMIT == 20

cacheHas(c, key) == \E i \in 1..Len(c) : c[i].key = key

cacheGet(c, key) == c[CHOOSE i \in 1..Len(c) : c[i].key = key].results

\* cacheInsert with the capacity test written > instead of >=
cacheInsertOffByOne(c, key, results) ==
    Append(IF Len(c) > CACHE_LIMIT THEN Tail(c) ELSE c,
           [key |-> key, results |-> results])

\* lines 201-208: evict the first key at capacity, then append the new entry
cacheInsert(c, key, results) ==
    Append(IF Len(c) >= CACHE_LIMIT THEN Tail(c) ELSE c,
           [key |-> key, results |-> results])

\* performSearch: the returned list, the cache afterwards, and what happened
performSearch(c, index, f) ==
    LET key == cacheKey(f) IN
    IF cacheHas(c, key)
    THEN [results |-> cacheGet(c, key), cache |-> c, hit |-> TRUE]
    ELSE LET results == computeResults(index, f) IN
         [results |-> results,
          cache |-> cacheInsert(c, key, results),
          hit |-> FALSE]

-----------------------------------------------------------------------------
(* Data of the model: raw upstream records and the lists validated from them *)

sHakata == <<"H", "a", "k", "a", "t", "a">>

sOther == <<"O", "t", "h", "e", "r">>

sDex == <<"D", "e", "x">>

sPerpDex == <<"p", "e", "r", "p", " ", "d", "e", "x">>

sHakataX == <<"h", "a", "k", "a", "t", "a", " ", "x">>

sUS == <<"U", "S">>

sJP == <<"J", "P">>

sDeFi == <<"D", "e", "F", "i">>

sInfra == <<"I", "n", "f", "r", "a">>

rawMember(n) == Obj([id |-> Num(n), username |-> Str(<<"u">>)])

rawHakata ==
    Obj([id |-> Num(1), name |-> Str(sHakata), description |-> Str(sPerpDex),
         country |-> Str(sUS), tracks |-> Arr(<<Str(sDeFi)>>),
         teamMembers |-> Arr(<<rawMember(1), rawMember(2)>>),
         likes |-> Num(42), comments |-> Num(3)])

rawOther ==
    Obj([id |-> Num(2), name |-> Str(sOther), description |-> Str(sHakataX),
         country |-> Str(sUS), tracks |-> Arr(<<Str(sInfra)>>),
         teamMembers |-> Arr(<<>>),
         likes |-> Num(10), comments |-> Num(7)])

rawDex ==
    Obj([id |-> Num(3), name |-> Str(sDex), description |-> Str(<<>>),
         country |-> Str(sJP), tracks |-> Arr(<<>>),
         teamMembers |-> Arr(<<rawMember(3)>>),
         likes |-> Num(150), comments |-> Num(0)])

\* an upstream record that repeats the id of rawHakata
rawOtherSameId == Obj([rawOther.v EXCEPT !.id = Num(1)])

EmptyList == validateProjects(Arr(<<>>))

TwoProjects == validateProjects(Arr(<<rawHakata, rawOther>>))

ThreeProjects == validateProjects(Arr(<<rawHakata, rawOther, rawDex>>))

RepeatedIdProjects == validateProjects(Arr(<<rawOtherSameId, rawHakata>>))

-----------------------------------------------------------------------------
(* The useSearch hook: state, timers and effects *)

NoTimer == 0

NoCall == [kind |-> "none"]

MaxChanges == 3

TickMs == 100

\* URLSearchParams: the entries in insertion order
urlParams(f) ==
    (IF f.search # <<>> THEN <<<<"q", f.search>>>> ELSE <<>>)
    \o (IF f.sortBy # "likes" THEN <<<<"sort", f.sortBy>>>> ELSE <<>>)
    \o (IF f.sortOrder # "desc" THEN <<<<"order", f.sortOrder>>>> ELSE <<>>)
    \o (IF Len(f.tracks) > 0
        THEN <<<<"tracks", Join(f.tracks, <<",">>)>>>> ELSE <<>>)
    \o (IF Len(f.countries) > 0
        THEN <<<<"countries", Join(f.countries, <<",">>)>>>> ELSE <<>>)

\* { ...prev, ...updates }
mergeFilters(prev, updates) ==
    [k \in DOMAIN prev |-> IF k \in DOMAIN updates THEN updates[k] ELSE prev[k]]

\* recomputeDelay with the else branch left at the initial "let delay = 100"
recomputeDelayDefaultOnly(f, applied) ==
    IF f.search # applied.search
    THEN (IF Len(f.search) = 0 THEN 100
          ELSE IF Len(f.search) <= 2 THEN 600
          ELSE IF Len(f.search) <= 5 THEN 500
          ELSE 400)
    ELSE 100

\* recomputeDelay with the medium class cut at length 2 instead of 5
recomputeDelayMediumCut(f, applied) ==
    IF f.search # applied.search
    THEN (IF Len(f.search) = 0 THEN 100
          ELSE IF Len(f.search) <= 2 THEN 600
          ELSE IF Len(f.search) <= 2 THEN 500
          ELSE 400)
    ELSE 200

\* lines 221-238: the delay chosen by the debounce effect
recomputeDelay(f, applied) ==
    IF f.search # applied.search
    THEN (IF Len(f.search) = 0 THEN 100
          ELSE IF Len(f.search) <= 2 THEN 600
          ELSE IF Len(f.search) <= 5 THEN 500
          ELSE 400)
    ELSE 200

URL_SYNC_DELAY == 800

\* the id setTimeout returns: one no pending timer and no ref holds
freshTimerId(ts, refs) ==
    CHOOSE i \in 1..(Cardinality(ts) + Cardinality(refs) + 1) :
        /\ i \notin {t.id : t \in ts} \cup refs
        /\ \A j \in 1..(i - 1) : j \in {t.id : t \in ts} \cup refs

\* clearTimeout(id)
clearTimeout(ts, id) == {t \in ts : t.id # id}

\* debounceEffect without the clearTimeout of the pending timer
debounceEffectNoClear(ts, ref, otherRef, f, fid, applied) ==
    LET id == freshTimerId(ts, {ref, otherRef})
    IN [timers |-> ts \cup
                     {[id |-> id, kind |-> "recompute",
                       delay |-> recomputeDelay(f, applied),
                       remaining |-> recomputeDelay(f, applied),
                       f |-> f, fid |-> fid]},
        ref |-> id]

\* lines 215-243: the debounce effect, run for filters f against the applied
\* spec; returns the pending timers and the new debounceRef.current
debounceEffect(ts, ref, otherRef, f, fid, applied) ==
    LET cleared == clearTimeout(ts, ref)
        id == freshTimerId(cleared, {ref, otherRef})
    IN [timers |-> cleared \cup
                     {[id |-> id, kind |-> "recompute",
                       delay |-> recomputeDelay(f, applied),
                       remaining |-> recomputeDelay(f, applied),
                       f |-> f, fid |-> fid]},
        ref |-> id]

\* urlSyncEffect without the clearTimeout of the pending timer
urlSyncEffectNoClear(ts, ref, otherRef, f, fid) ==
    LET id == freshTimerId(ts, {ref, otherRef})
    IN [timers |-> ts \cup
                     {[id |-> id, kind |-> "url",
                       delay |-> URL_SYNC_DELAY,
                       remaining |-> URL_SYNC_DELAY,
                       f |-> f, fid |-> fid]},
        ref |-> id]

\* lines 258-279: the URL sync effect
urlSyncEffect(ts, ref, otherRef, f, fid) ==
    LET cleared == clearTimeout(ts, ref)
        id == freshTimerId(cleared, {ref, otherRef})
    IN [timers |-> cleared \cup
                     {[id |-> id, kind |-> "url",
                       delay |-> URL_SYNC_DELAY,
                       remaining |-> URL_SYNC_DELAY,
                       f |-> f, fid |-> fid]},
        ref |-> id]

\* the record of one performSearch call
callRecord(r, f) ==
    [kind |-> IF r.hit THEN "hit" ELSE "miss", key |-> cacheKey(f)]

\* searchParams.has(key)
paramHas(params, key) == \E i \in 1..Len(params) : params[i][1] = key

\* searchParams.get(key), or <<>> when the parameter is absent
paramGet(params, key) ==
    IF \E i \in 1..Len(params) : params[i][1] = key
    THEN params[CHOOSE i \in 1..Len(params) :
                    params[i][1] = key
                    /\ \A j \in 1..(i - 1) : params[j][1] # key][2]
    ELSE <<>>

\* lines 41-56: the initial filters read from the URL
initialFilters(params) ==
    [DEFAULT_FILTERS EXCEPT
        !.search = paramGet(params, "q"),
        !.sortBy = IF paramHas(params, "sort")
                      /\ paramGet(params, "sort") # ""
                   THEN paramGet(params, "sort") ELSE "likes",
        !.sortOrder = IF paramHas(params, "order")
                         /\ paramGet(params, "order") # ""
                      THEN paramGet(params, "order") ELSE "desc",
        !.tracks = SplitOn(paramGet(params, "tracks"), ",", <<>>),
        !.countries = SplitOn(paramGet(params, "countries"), ",", <<>>)]

\* the state after the first render and its effects: performSearch ran once
\* on the initial list, both timers are scheduled and the cache-clear effect
\* has emptied the cache
MountedState(list, params) ==
    LET f == initialFilters(params)
        first == performSearch(<<>>, searchIndex(list), f)
        deb == debounceEffect({}, NoTimer, NoTimer, f, 0, f)
        sync == urlSyncEffect(deb.timers, NoTimer, deb.ref, f, 0)
    IN /\ projects = list
       /\ url = params
       /\ filters = f
       /\ debouncedFilters = f
       /\ filtersId = 0
       /\ debouncedId = 0
       /\ isSearching = TRUE
       /\ filteredProjects = first.results
       /\ lastCall = callRecord(first, f)
       /\ cache = <<>>
       /\ timers = sync.timers
       /\ debounceRef = deb.ref
       /\ urlSyncRef = sync.ref
       /\ changes = 0

ValidatorIdle == raw = Undef /\ validated = Undef

BatchIdle == batchData = Undef /\ validProjects = Undef

SanitizerIdle == sanitizeInput = Undef /\ sanitizeOutput = Undef

HookIdle == MountedState(EmptyList, <<>>)

PageIdle == pageLoads = 1

\* ProjectsProvider after construction, before its mount effect
ProviderIdle ==
    /\ providerProjects = <<>>
    /\ loading = FALSE
    /\ lastFetch = Null
    /\ error = Null
    /\ initialLoaded = FALSE
    /\ isRefreshing = FALSE
    /\ refreshCount = 0
    /\ fetches = {}
    /\ started = 0
    /\ settled = Null
    /\ mounted = FALSE
    /\ now = 0

CACHE_TTL == 300000

\* route.ts after module load: no admitted call, an empty response cache
RouteIdle ==
    /\ limiterCalls = <<>>
    /\ routeCache = [data |-> Null, timestamp |-> 0, ttl |-> CACHE_TTL]
    /\ upstream = {}
    /\ upstreamCalls = 0
    /\ requests = 0
    /\ admitted = <<>>
    /\ lastResponse = Null
    /\ serverNow = 0
    /\ clockSteps = 0

\* apiCallWithRetry has not been called
RetryIdle ==
    /\ retryPc = "idle"
    /\ retryMax = 0
    /\ retryAttempt = 0
    /\ retryInvocations = 0
    /\ retryOutcomes = <<>>
    /\ retryDelay = 0
    /\ retryReturn = [kind |-> "pending"]

\* an empty database and no getProjectTrends call
TrendsIdle ==
    /\ dbProjects = {}
    /\ dbMetrics = <<>>
    /\ scriptNow = 0
    /\ scriptSteps = 0
    /\ trendQuery = [t |-> "pending"]
    /\ trends = [t |-> "pending"]

\* the script has not been started
MainIdle ==
    /\ mainPc = "idle"
    /\ mainOptions = Null
    /\ mainEnv = Null
    /\ apiDelivered = FALSE
    /\ dataSource = "none"
    /\ mainProjects = Undef
    /\ exitCode = Null

PAGE_SIZE_OPTIONS == {10, 20, 50, 100, 250}

DEFAULT_PAGE_SIZE == 20

\* paginatedProjects with the guard of line 158 and slice of lines 159-160
paginatedProjects(list, page, size) ==
    IF Len(list) = 0 THEN <<>>
    ELSE LET startIndex == (page - 1) * size
             last == IF startIndex + size < Len(list) THEN startIndex + size
                     ELSE Len(list)
         IN IF startIndex >= Len(list) THEN <<>>
            ELSE [i \in 1..(last - startIndex) |-> list[startIndex + i]]

\* ProjectsTable as first rendered with an empty list
TableIdle ==
    /\ tableProjects = <<>>
    /\ currentPage = 1
    /\ itemsPerPage = DEFAULT_PAGE_SIZE
    /\ tableRows = <<>>
    /\ tableEffects = FALSE
    /\ tableSort = [sortBy |-> "likes", sortOrder |-> "desc"]

DEFAULT_MAX_SEARCHES == 10

\* the queries passed to the recent-search hook
RecentQueries ==
    {<<>>, <<" ">>, <<"a">>, <<"b">>, <<"c">>, <<"a", " ">>}

\* useRecentSearches mounted with nothing in localStorage
RecentIdle ==
    /\ recentSearches = <<>>
    /\ recentMax = DEFAULT_MAX_SEARCHES
    /\ recentStamp = [q \in RecentQueries |-> 0]
    /\ recentCalls = 0

\* every component outside the set S is in its idle state
IdleExcept(S) ==
    /\ IF "hook" \in S THEN TRUE ELSE HookIdle
    /\ IF "validator" \in S THEN TRUE ELSE ValidatorIdle
    /\ IF "batch" \in S THEN TRUE ELSE BatchIdle
    /\ IF "sanitizer" \in S THEN TRUE ELSE SanitizerIdle
    /\ IF "page" \in S THEN TRUE ELSE PageIdle
    /\ IF "provider" \in S THEN TRUE ELSE ProviderIdle
    /\ IF "route" \in S THEN TRUE ELSE RouteIdle
    /\ IF "retry" \in S THEN TRUE ELSE RetryIdle
    /\ IF "trends" \in S THEN TRUE ELSE TrendsIdle
    /\ IF "main" \in S THEN TRUE ELSE MainIdle
    /\ IF "table" \in S THEN TRUE ELSE TableIdle
    /\ IF "recent" \in S THEN TRUE ELSE RecentIdle

Init ==
    /\ MountedState(EmptyList, <<>>) /\ ValidatorIdle
    /\ IdleExcept({"hook", "validator"})

\* the partial updates the filter controls pass to updateFilters
Updates ==
    {[search |-> q] : q \in {<<>>, <<"h">>, <<"h", "a", "k">>, sHakata}}
    \cup {[tracks |-> <<sDeFi>>], [likesRange |-> <<20, 100>>],
          [sortBy |-> "name"], DEFAULT_FILTERS}

\* updateFilters(updates): setFilters, then the debounce effect and the URL
\* sync effect run for the new filters object
UpdateFilters(updates) ==
    LET f == mergeFilters(filters, updates)
        fid == changes + 1
        deb == debounceEffect(timers, debounceRef, urlSyncRef, f, fid,
                              debouncedFilters)
        sync == urlSyncEffect(deb.timers, urlSyncRef, deb.ref, f, fid)
    IN /\ changes < MaxChanges
       /\ changes' = changes + 1
       /\ filters' = f
       /\ filtersId' = fid
       /\ isSearching' = TRUE
       /\ timers' = sync.timers
       /\ debounceRef' = deb.ref
       /\ urlSyncRef' = sync.ref
       /\ UNCHANGED <<projects, debouncedFilters, debouncedId, cache,
                      filteredProjects, url, lastCall, raw, validated>>
       /\ UNCHANGED otherVars

\* the recompute timer t fires: setDebouncedFilters(filters) and
\* setIsSearching(false) with the filters the timer captured; the render
\* recomputes filteredProjects when the applied object changed, and the
\* debounce effect runs again when debouncedFilters.search changed
FireRecompute(t) ==
    LET rest == timers \ {t}
        r == performSearch(cache, searchIndex(projects), t.f)
        deb == debounceEffect(rest, debounceRef, urlSyncRef, filters,
                              filtersId, t.f)
    IN /\ t \in timers /\ t.kind = "recompute" /\ t.remaining = 0
       /\ debouncedFilters' = t.f
       /\ debouncedId' = t.fid
       /\ IF t.fid # debouncedId
          THEN /\ filteredProjects' = r.results
               /\ cache' = r.cache
               /\ lastCall' = callRecord(r, t.f)
          ELSE UNCHANGED <<filteredProjects, cache, lastCall>>
       /\ IF t.f.search # debouncedFilters.search
          THEN /\ isSearching' = TRUE
               /\ timers' = deb.timers
               /\ debounceRef' = deb.ref
          ELSE /\ isSearching' = FALSE
               /\ timers' = rest
               /\ UNCHANGED debounceRef
       /\ UNCHANGED <<projects, filters, filtersId, urlSyncRef, url, changes,
                      raw, validated>>
       /\ UNCHANGED otherVars

\* the URL sync timer t fires: router.replace when the query string differs
FireUrlSync(t) ==
    /\ t \in timers /\ t.kind = "url" /\ t.remaining = 0
    /\ timers' = timers \ {t}
    /\ url' = IF urlParams(t.f) # url THEN urlParams(t.f) ELSE url
    /\ UNCHANGED <<projects, filters, filtersId, debouncedFilters,
                   debouncedId, isSearching, debounceRef, urlSyncRef, cache,
                   filteredProjects, lastCall, changes, raw, validated>>
    /\ UNCHANGED otherVars

\* time passes while no pending timer is due
Tick ==
    /\ timers # {}
    /\ \A t \in timers : t.remaining > 0
    /\ timers' = {[t EXCEPT !.remaining =
                        IF t.remaining > TickMs THEN t.remaining - TickMs
                        ELSE 0] : t \in timers}
    /\ UNCHANGED <<projects, filters, filtersId, debouncedFilters,
                   debouncedId, isSearching, debounceRef, urlSyncRef, cache,
                   filteredProjects, url, lastCall, changes, raw, validated>>
    /\ UNCHANGED otherVars

\* the lists the provider hands to useSearch
Datasets == {TwoProjects, ThreeProjects}

\* the provider sets a new project list: the render rebuilds the index and
\* calls performSearch(debouncedFilters) against the cache as it is, and only
\* afterwards the cache-clear effect runs
SetProjects(list) ==
    LET r == performSearch(cache, searchIndex(list), debouncedFilters) IN
    /\ changes < MaxChanges
    /\ changes' = changes + 1
    /\ projects' = list
    /\ filteredProjects' = r.results
    /\ lastCall' = callRecord(r, debouncedFilters)
    /\ cache' = <<>>
    /\ UNCHANGED <<filters, filtersId, debouncedFilters, debouncedId,
                   isSearching, timers, debounceRef, urlSyncRef, url, raw,
                   validated>>
    /\ UNCHANGED otherVars

Next ==
    \/ \E u \in Updates : UpdateFilters(u)
    \/ \E t \in timers : FireRecompute(t)
    \/ \E t \in timers : FireUrlSync(t)
    \/ Tick
    \/ \E list \in Datasets : SetProjects(list)

Spec == Init /\ [][Next]_vars

-----------------------------------------------------------------------------
(* performSearch called directly: one call on a freshly mounted hook         *)
(* (SpecSearch) and a long run of calls that fills the cache (SpecCache)     *)

\* the render in which debouncedFilters becomes f: the useMemo of line 289
\* calls performSearch(f)
ApplyFilters(f) ==
    LET r == performSearch(cache, searchIndex(projects), f) IN
    /\ changes' = changes + 1
    /\ filters' = f
    /\ filtersId' = changes + 1
    /\ debouncedFilters' = f
    /\ debouncedId' = changes + 1
    /\ filteredProjects' = r.results
    /\ cache' = r.cache
    /\ lastCall' = callRecord(r, f)
    /\ UNCHANGED <<projects, isSearching, timers, debounceRef, urlSyncRef,
                   url, raw, validated>>
    /\ UNCHANGED otherVars

SearchDatasets == {EmptyList, TwoProjects, ThreeProjects, RepeatedIdProjects}

SearchTexts ==
    {<<>>, <<"h">>, <<"h", "a">>, <<"H", "A", "K">>, <<"d", "e", "x">>,
     <<"z", "z", " ", "d", "e", "x">>}

SearchSpecs ==
    [search : SearchTexts,
     tracks : {<<>>, <<ToLowerCase(sDeFi)>>, <<sDeFi, sInfra>>},
     countries : {<<>>, <<ToLowerCase(sUS)>>},
     teamSizeRange : {<<1, 50>>, <<2, 50>>, <<1, 1>>, <<0, 60>>},
     likesRange : {<<0, 100>>, <<20, 100>>, <<0, 120>>, <<0, 200>>},
     sortBy : {"likes", "comments", "name", "country", "teamSize"},
     sortOrder : {"asc", "desc"}]

InitSearch ==
    /\ \E list \in SearchDatasets : MountedState(list, <<>>)
    /\ ValidatorIdle
    /\ IdleExcept({"hook", "validator"})

FirstSearch(f) == changes = 0 /\ ApplyFilters(f)

NextSearch == \E f \in SearchSpecs : FirstSearch(f)

SpecSearch == InitSearch /\ [][NextSearch]_vars

MaxCalls == 24

MaxLikesMin == 22

InitCache ==
    /\ MountedState(ThreeProjects, <<>>) /\ ValidatorIdle
    /\ IdleExcept({"hook", "validator"})

\* the spinner of the "Min likes" input, applied
StepLikesMin(d) ==
    /\ changes < MaxCalls
    /\ debouncedFilters.likesRange[1] + d \in 0..MaxLikesMin
    /\ ApplyFilters([debouncedFilters EXCEPT !.likesRange[1] = @ + d])

\* clearFilters, applied
ClearFilters ==
    /\ changes < MaxCalls
    /\ ApplyFilters(DEFAULT_FILTERS)

NextCache ==
    \/ \E d \in {-1, 1} : StepLikesMin(d)
    \/ ClearFilters

SpecCache == InitCache /\ [][NextCache]_vars

-----------------------------------------------------------------------------
(* The URL contract: a spec is set, URL sync writes it, and the page is     *)
(* loaded again from the written URL (SpecUrl)                                *)

MaxLoads == 2

sKorea == <<"K", "o", "r", "e", "a", ",", " ", "R", "e", "p">>

\* the filter specs the controls of the page can produce
UrlSpecs ==
    [search : {<<>>, <<"h", "a">>},
     tracks : {<<>>, <<sDeFi>>, <<sDeFi, sInfra>>},
     countries : {<<>>, <<sUS>>, <<sKorea>>},
     teamSizeRange : {<<DEFAULT_TEAM_MIN, DEFAULT_TEAM_MAX>>},
     likesRange : {<<DEFAULT_LIKES_MIN, DEFAULT_LIKES_MAX>>},
     sortBy : {"likes", "name", "teamSize"},
     sortOrder : {"asc", "desc"}]

InitUrl == Init

\* the controls bring the filters of a freshly loaded page to f
SetSpec(f) == changes = 0 /\ pageLoads = 1 /\ UpdateFilters(f)

\* the page is loaded from the current URL: useSearch mounts again and reads
\* its initial filters from the query parameters (lines 41-56)
Reload ==
    LET f == initialFilters(url)
        first == performSearch(<<>>, searchIndex(projects), f)
        deb == debounceEffect({}, NoTimer, NoTimer, f, 0, f)
        sync == urlSyncEffect(deb.timers, NoTimer, deb.ref, f, 0)
    IN /\ pageLoads < MaxLoads
       /\ pageLoads' = pageLoads + 1
       /\ filters' = f
       /\ debouncedFilters' = f
       /\ filtersId' = 0
       /\ debouncedId' = 0
       /\ isSearching' = TRUE
       /\ filteredProjects' = first.results
       /\ lastCall' = callRecord(first, f)
       /\ cache' = <<>>
       /\ timers' = sync.timers
       /\ debounceRef' = deb.ref
       /\ urlSyncRef' = sync.ref
       /\ changes' = 0
       /\ UNCHANGED <<projects, url, validatorVars, batchVars, sanitizerVars,
                      providerVars, routeVars, scriptVars>>

NextUrl ==
    \/ \E f \in UrlSpecs : SetSpec(f)
    \/ \E t \in timers : FireRecompute(t)
    \/ \E t \in timers : FireUrlSync(t)
    \/ Tick
    \/ Reload

SpecUrl == InitUrl /\ [][NextUrl]_vars

-----------------------------------------------------------------------------
(* validateProject applied to one raw record (SpecValidate) *)

RawTexts ==
    {Undef, Null, Str(<<>>), Str(sPerpDex), Num(42), Arr(<<>>)}

RawRecords ==
    {Obj([id |-> i, name |-> n, description |-> d, slug |-> Undef,
          country |-> c, tracks |-> tr, teamMembers |-> tm,
          repoLink |-> l, submittedAt |-> dt]) :
        i \in {Undef, Num(0), Num(7), Num(-2), Str(<<"x">>), NaN},
        n \in {Undef, Str(<<>>), Str(sDex), Str(<<" ">>), Num(5)},
        d \in RawTexts,
        c \in {Undef, Str(sUS), Bool(TRUE)},
        tr \in {Undef, Str(sDeFi), Arr(<<Str(sDeFi), Num(1), Str(<<"<">>)>>)},
        tm \in {Undef, Str(sUS), Arr(<<rawMember(1), Null>>),
                Arr(<<Obj([username |-> Num(9)])>>)},
        l \in {Undef, Num(1),
               Str(<<"h", "t", "t", "p", ":", "/", "/", "x">>),
               Str(<<"f", "t", "p", ":", "x">>)},
        dt \in {Undef, Str(LooseDate), Str(<<"z">>)}}

RawInputs == RawRecords \cup {Undef, Null, Str(sDex), Num(1)}

Pending == [t |-> "pending"]

InitValidate ==
    /\ MountedState(EmptyList, <<>>)
    /\ raw \in RawInputs
    /\ validated = Pending
    /\ IdleExcept({"hook", "validator"})

Validate ==
    /\ validated = Pending
    /\ validated' = validateProject(raw)
    /\ UNCHANGED <<raw, projects, filters, filtersId, debouncedFilters,
                   debouncedId, isSearching, timers, debounceRef, urlSyncRef,
                   cache, filteredProjects, url, lastCall, changes>>
    /\ UNCHANGED otherVars

NextValidate == Validate

SpecValidate == InitValidate /\ [][NextValidate]_vars

-----------------------------------------------------------------------------
(* validateProjects applied to one payload (SpecBatch) *)

MaxBatch == 2

\* a record with id and name whose description makes sanitizeString throw
rawBadDescription ==
    Obj([id |-> Num(7), name |-> Str(sDex), description |-> Num(42)])

BatchItems ==
    {rawHakata, rawOther, rawDex, rawBadDescription, Null, Num(1),
     Str(sDex), Obj([name |-> Str(sDex)])}

RECURSIVE SeqsUpTo(_, _)
SeqsUpTo(S, n) ==
    IF n = 0 THEN {<<>>}
    ELSE LET shorter == SeqsUpTo(S, n - 1) IN
         shorter \cup {Append(q, x) : q \in shorter, x \in S}

BatchInputs ==
    {Arr(q) : q \in SeqsUpTo(BatchItems, MaxBatch)}
    \cup {Undef, Null, Num(3), Str(sDex), rawHakata}

InitBatch ==
    /\ IdleExcept({"batch"})
    /\ batchData \in BatchInputs
    /\ validProjects = Pending

ValidateBatch ==
    /\ validProjects = Pending
    /\ validProjects' = IF validateProjectsThrows(batchData) THEN Thrown
                        ELSE Arr(validateProjects(batchData))
    /\ UNCHANGED <<batchData, hookVars, validatorVars, sanitizerVars,
                   pageVars, providerVars, routeVars, scriptVars>>

NextBatch == ValidateBatch

SpecBatch == InitBatch /\ [][NextBatch]_vars

-----------------------------------------------------------------------------
(* sanitizeString applied to one string (SpecSanitize) *)

MaxPieces == 3

\* the pieces the input strings are put together from
Pieces ==
    {<<"<">>, <<"d", "a">>, <<"t", "a", ":">>, <<"D", "a", "t", "a", ":">>,
     <<"j", "a">>, <<"v", "a", "s", "c", "r", "i", "p", "t", ":">>,
     JavascriptScheme, <<" ", "x">>}

RECURSIVE Concat(_)
Concat(parts) == IF parts = <<>> THEN <<>> ELSE Head(parts) \o Concat(Tail(parts))

SanitizeInputs ==
    {Str(Concat(q)) : q \in SeqsUpTo(Pieces, MaxPieces)} \cup {Undef, Null}

InitSanitize ==
    /\ IdleExcept({"sanitizer"})
    /\ sanitizeInput \in SanitizeInputs
    /\ sanitizeOutput = Pending

Sanitize ==
    /\ sanitizeOutput = Pending
    /\ sanitizeOutput' = Str(sanitizeString(sanitizeInput))
    /\ UNCHANGED <<sanitizeInput, hookVars, validatorVars, batchVars,
                   pageVars, providerVars, routeVars, scriptVars>>

NextSanitize == Sanitize

SpecSanitize == InitSanitize /\ [][NextSanitize]_vars

-----------------------------------------------------------------------------
(* ProjectsProvider: fetchData, the mount effect and the periodic refresh   *)
(* (SpecProvider)                                                           *)

STALE_TIME == 60000

REFRESH_CHECK_INTERVAL == 30000

MaxFetches == 3

MaxNow == 120000

\* what fetch('/api/projects') and response.json() deliver
Responses ==
    {[kind |-> "reject"],
     [kind |-> "status", status |-> 500],
     [kind |-> "json", body |-> Arr(<<>>)],
     [kind |-> "json", body |-> Arr(<<Null, Obj([name |-> Str(sDex)])>>)],
     [kind |-> "json", body |-> Arr(<<rawHakata, Null, rawOther>>)],
     [kind |-> "json", body |-> Arr(<<rawDex>>)]}

\* error.message as the value of the error state
Message(m) == [t |-> "string", text |-> m]

\* response.ok
ResponseOk(resp) ==
    resp.kind = "json" \/ (resp.kind = "status" /\ resp.status \in 200..299)

\* projects.length === 0
ZeroLength(v) == v.t \in {"array", "string"} /\ Len(v.v) = 0

\* fetchProjectsFromAPI (lib/api.ts): the payload, or the error thrown
fetchProjectsFromAPI(resp) ==
    IF resp.kind = "reject"
    THEN [threw |-> TRUE, message |-> "Failed to fetch"]
    ELSE IF ~ResponseOk(resp)
    THEN [threw |-> TRUE, message |-> "API request failed"]
    ELSE IF Falsy(resp.body) \/ ZeroLength(resp.body)
    THEN [threw |-> TRUE, message |-> "No projects found in API response"]
    ELSE [threw |-> FALSE, value |-> resp.body]

\* fetchDataTry with the zero-length test on the validated list left out
fetchDataTryNoEmptyCheck(resp) ==
    LET newProjects == fetchProjectsFromAPI(resp) IN
    IF newProjects.threw THEN newProjects
    ELSE [threw |-> FALSE, value |-> validateProjects(newProjects.value)]

\* the try block of fetchData up to the first state update: the validated
\* list, or the error thrown
fetchDataTry(resp) ==
    LET newProjects == fetchProjectsFromAPI(resp) IN
    IF newProjects.threw THEN newProjects
    ELSE LET validatedProjects == validateProjects(newProjects.value) IN
         IF Len(validatedProjects) = 0
         THEN [threw |-> TRUE,
               message |-> "No valid projects received from API"]
         ELSE [threw |-> FALSE, value |-> validatedProjects]

\* what localStorage holds when the provider mounts
SavedStates ==
    {[projects |-> <<>>, time |-> Null],
     [projects |-> <<rawHakata>>, time |-> Num(0)],
     [projects |-> <<rawHakata>>, time |-> Num(0 - 90000)]}

InitProvider == IdleExcept({"provider"}) /\ ProviderIdle

\* the synchronous head of fetchData(isBackground), up to the await
FetchDataStart(isBackground, initial) ==
    /\ started < MaxFetches
    /\ started' = started + 1
    /\ fetches' = fetches \cup {[id |-> started + 1, bg |-> isBackground,
                                  initial |-> initial]}
    /\ IF isBackground
       THEN UNCHANGED <<loading, isRefreshing>>
       ELSE loading' = TRUE /\ isRefreshing' = TRUE
    /\ error' = Null

\* the mount effect: loadInitialData
LoadInitialData(saved) ==
    /\ ~mounted
    /\ mounted' = TRUE
    /\ IF Len(saved.projects) > 0 /\ saved.time # Null
       THEN /\ providerProjects' = validateProjects(Arr(saved.projects))
            /\ lastFetch' = saved.time
            /\ initialLoaded' = TRUE
            /\ IF now - saved.time.v > STALE_TIME
               THEN FetchDataStart(TRUE, FALSE)
               ELSE UNCHANGED <<started, fetches, loading, isRefreshing,
                                error>>
       ELSE /\ FetchDataStart(FALSE, TRUE)
            /\ UNCHANGED <<providerProjects, lastFetch, initialLoaded>>
    /\ UNCHANGED <<refreshCount, settled, now>>
    /\ UNCHANGED <<hookVars, validatorVars, batchVars, sanitizerVars,
                   pageVars, routeVars, scriptVars>>

\* the context's fetchData: () => fetchData(false), called by the page
FetchData ==
    /\ mounted
    /\ FetchDataStart(FALSE, FALSE)
    /\ UNCHANGED <<providerProjects, lastFetch, initialLoaded, refreshCount,
                   settled, mounted, now>>
    /\ UNCHANGED <<hookVars, validatorVars, batchVars, sanitizerVars,
                   pageVars, routeVars, scriptVars>>

\* the 30 second interval callback finds the data stale
CheckForRefresh ==
    /\ lastFetch # Null /\ initialLoaded
    /\ now - lastFetch.v > STALE_TIME
    /\ FetchDataStart(TRUE, FALSE)
    /\ UNCHANGED <<providerProjects, lastFetch, initialLoaded, refreshCount,
                   settled, mounted, now>>
    /\ UNCHANGED <<hookVars, validatorVars, batchVars, sanitizerVars,
                   pageVars, routeVars, scriptVars>>

\* the response of call c arrives: the rest of the try block, the catch and
\* the finally of fetchData, and the finally of loadInitialData when it
\* awaited the call
FetchDataSettles(c, resp) ==
    LET r == fetchDataTry(resp) IN
    /\ c \in fetches
    /\ fetches' = fetches \ {c}
    /\ settled' = [call |-> c, response |-> resp]
    /\ IF r.threw
       THEN /\ error' = Message(r.message)
            /\ UNCHANGED <<providerProjects, lastFetch, refreshCount>>
       ELSE /\ providerProjects' = r.value
            /\ lastFetch' = Num(now)
            /\ refreshCount' = refreshCount + 1
            /\ UNCHANGED error
    /\ IF c.bg
       THEN UNCHANGED <<loading, isRefreshing>>
       ELSE loading' = FALSE /\ isRefreshing' = FALSE
    /\ initialLoaded' = (initialLoaded \/ c.initial)
    /\ UNCHANGED <<started, mounted, now>>
    /\ UNCHANGED <<hookVars, validatorVars, batchVars, sanitizerVars,
                   pageVars, routeVars, scriptVars>>

\* time passes
PassTime ==
    /\ now < MaxNow
    /\ now' = now + REFRESH_CHECK_INTERVAL
    /\ UNCHANGED <<providerProjects, loading, lastFetch, error,
                   initialLoaded, isRefreshing, refreshCount, fetches,
                   started, settled, mounted>>
    /\ UNCHANGED <<hookVars, validatorVars, batchVars, sanitizerVars,
                   pageVars, routeVars, scriptVars>>

NextProvider ==
    \/ \E saved \in SavedStates : LoadInitialData(saved)
    \/ FetchData
    \/ CheckForRefresh
    \/ \E c \in fetches, resp \in Responses : FetchDataSettles(c, resp)
    \/ PassTime

SpecProvider == InitProvider /\ [][NextProvider]_vars

-----------------------------------------------------------------------------
(* GET /api/projects with its rate limiter and response cache (SpecRoute)   *)

LIMITER_MAX_CALLS == 10

LIMITER_WINDOW_MS == 60000

MaxRequests == 11

MaxClockSteps == 2

\* the amounts by which the server clock advances between two events
ClockAdvances == {1, 59999}

\* the time that can pass between two reads of Date.now() in one handler
ReadSkews == {0, 1}

\* this.calls.filter(time => now - time < this.windowMs)
liveCalls(calls, t) ==
    LET keep == {i \in 1..Len(calls) : t - calls[i] < LIMITER_WINDOW_MS}
        RECURSIVE pick(_)
        pick(i) == IF i > Len(calls) THEN <<>>
                   ELSE (IF i \in keep THEN <<calls[i]>> ELSE <<>>)
                        \o pick(i + 1)
    IN pick(1)

\* canMakeRequest with the capacity test written <= instead of <
canMakeRequestOffByOne(calls, t) ==
    LET live == liveCalls(calls, t) IN
    IF Len(live) <= LIMITER_MAX_CALLS
    THEN [ok |-> TRUE, calls |-> Append(live, t)]
    ELSE [ok |-> FALSE, calls |-> live]

\* RateLimiter.canMakeRequest at time t: the answer and this.calls afterwards
canMakeRequest(calls, t) ==
    LET live == liveCalls(calls, t) IN
    IF Len(live) < LIMITER_MAX_CALLS
    THEN [ok |-> TRUE, calls |-> Append(live, t)]
    ELSE [ok |-> FALSE, calls |-> live]

\* Math.min(...this.calls)
oldestCall(calls) ==
    CHOOSE t \in Range(calls) : \A u \in Range(calls) : t <= u

\* RateLimiter.getTimeUntilReset at time t
getTimeUntilReset(calls, t) ==
    IF Len(calls) < LIMITER_MAX_CALLS THEN 0
    ELSE Max0(LIMITER_WINDOW_MS - (t - oldestCall(calls)))

\* Math.ceil(ms / 1000) for ms >= 0
ceilSeconds(ms) == (ms + 999) \div 1000

\* what the upstream fetch delivers
UpstreamOutcomes ==
    {[kind |-> "abort"],
     [kind |-> "status", status |-> 502],
     [kind |-> "json",
      body |-> Obj([projects |-> Arr(<<rawHakata, Null, rawOther>>)])]}

\* lines 104-107: teamSize recomputed from the validated teamMembers
withTeamSize(list) ==
    [i \in 1..Len(list) |->
        [list[i] EXCEPT !.teamSize = Num(Len(list[i].teamMembers))]]

\* lines 78-107 of GET: the list to cache and send, or the error thrown
upstreamResult(out) ==
    IF out.kind = "abort" THEN [threw |-> TRUE, status |-> 504]
    ELSE IF ~ResponseOk(out) THEN [threw |-> TRUE, status |-> 500]
    ELSE IF Falsy(out.body) \/ Falsy(Prop(out.body, "projects"))
            \/ Prop(out.body, "projects").t # "array"
         THEN [threw |-> TRUE, status |-> 500]
    ELSE IF Len(Prop(out.body, "projects").v) = 0
         THEN [threw |-> TRUE, status |-> 500]
    ELSE IF Len(validateProjects(Prop(out.body, "projects"))) = 0
         THEN [threw |-> TRUE, status |-> 500]
    ELSE [threw |-> FALSE,
          value |-> withTeamSize(validateProjects(Prop(out.body,
                                                        "projects")))]

\* the cache test with the entry expiring one millisecond early
cacheHitTooShort(c, t) ==
    ~Falsy(c.data) /\ t - c.timestamp < c.ttl - 1

\* line 47: cache.data && (now - cache.timestamp < cache.ttl)
cacheHit(c, t) ==
    ~Falsy(c.data) /\ t - c.timestamp < c.ttl

InitRoute == IdleExcept({"route"}) /\ RouteIdle

\* GET up to its first await: the limiter, the cache lookup and the start of
\* the upstream fetch; skew is the time that passes between the clock read
\* of canMakeRequest and the clock read of getTimeUntilReset. One request
\* at a time waits for the upstream.
Get(skew) ==
    LET lim == canMakeRequest(limiterCalls, serverNow)
        t == IF lim.ok THEN serverNow ELSE serverNow + skew
    IN /\ requests < MaxRequests
       /\ requests' = requests + 1
       /\ serverNow' = t
       /\ limiterCalls' = lim.calls
       /\ IF ~lim.ok
          THEN /\ lastResponse' =
                    [status |-> 429,
                     retryAfter |->
                        ceilSeconds(getTimeUntilReset(lim.calls, t))]
               /\ UNCHANGED <<routeCache, upstream, upstreamCalls, admitted>>
          ELSE /\ admitted' = Append(admitted, serverNow)
               /\ IF cacheHit(routeCache, t)
                  THEN /\ lastResponse' = [status |-> 200, xCache |-> "HIT",
                                           body |-> routeCache.data]
                       /\ UNCHANGED <<routeCache, upstream, upstreamCalls>>
                  ELSE /\ upstream = {}
                       /\ upstream' = {[now |-> t]}
                       /\ upstreamCalls' = upstreamCalls + 1
                       /\ UNCHANGED <<routeCache, lastResponse>>
       /\ UNCHANGED clockSteps
       /\ UNCHANGED <<hookVars, validatorVars, batchVars, sanitizerVars,
                      pageVars, providerVars, scriptVars>>

\* the upstream fetch of request c settles: the rest of GET
GetSettles(c, out) ==
    LET r == upstreamResult(out) IN
    /\ c \in upstream
    /\ upstream' = upstream \ {c}
    /\ IF r.threw
       THEN /\ lastResponse' = [status |-> r.status]
            /\ UNCHANGED routeCache
       ELSE /\ routeCache' = [data |-> Arr(r.value), timestamp |-> c.now,
                              ttl |-> routeCache.ttl]
            /\ lastResponse' = [status |-> 200, xCache |-> "MISS",
                                body |-> Arr(r.value)]
    /\ UNCHANGED <<limiterCalls, upstreamCalls, requests, admitted,
                   serverNow, clockSteps>>
    /\ UNCHANGED <<hookVars, validatorVars, batchVars, sanitizerVars,
                   pageVars, providerVars, scriptVars>>

\* time passes on the server
ServerTime(d) ==
    /\ clockSteps < MaxClockSteps
    /\ clockSteps' = clockSteps + 1
    /\ serverNow' = serverNow + d
    /\ UNCHANGED <<limiterCalls, routeCache, upstream, upstreamCalls,
                   requests, admitted, lastResponse>>
    /\ UNCHANGED <<hookVars, validatorVars, batchVars, sanitizerVars,
                   pageVars, providerVars, scriptVars>>

NextRoute ==
    \/ \E skew \in ReadSkews : Get(skew)
    \/ \E c \in upstream, out \in UpstreamOutcomes : GetSettles(c, out)
    \/ \E d \in ClockAdvances : ServerTime(d)

SpecRoute == InitRoute /\ [][NextRoute]_vars

\* a clock advance that ends just inside the lifetime of a cache entry
TtlAdvances == {CACHE_TTL - 1}

NextRouteTtl ==
    \/ \E skew \in ReadSkews : Get(skew)
    \/ \E c \in upstream, out \in UpstreamOutcomes : GetSettles(c, out)
    \/ \E d \in TtlAdvances : ServerTime(d)

\* the route over the lifetime of a cache entry
SpecRouteTtl == InitRoute /\ [][NextRouteTtl]_vars

-----------------------------------------------------------------------------
(* apiCallWithRetry of the standalone script (SpecRetry, SpecRetryLive)     *)

MaxRetries == 3

RETRY_DELAY_BASE == 5000

\* the views of the application outside the standalone script
dashVars == <<hookVars, validatorVars, batchVars, sanitizerVars, pageVars,
              providerVars, routeVars>>

\* everything but the state of apiCallWithRetry
exceptRetry == <<dashVars, trendVars, mainVars, componentVars>>

\* everything but the store and the result of getProjectTrends
exceptTrends == <<dashVars, retryVars, mainVars, componentVars>>

\* everything but the state of the main run
exceptMain == <<dashVars, retryVars, trendVars, componentVars>>

\* what one invocation of the wrapped call delivers: a resolved value or a
\* thrown error
CallOutcomes ==
    {[kind |-> "result", value |-> [status |-> 200, ok |-> TRUE]],
     [kind |-> "result", value |-> [status |-> 500, ok |-> FALSE]],
     [kind |-> "result", value |-> [status |-> 429, ok |-> FALSE]],
     [kind |-> "result", value |-> [status |-> 401, ok |-> FALSE]],
     [kind |-> "result", value |-> [status |-> 0, ok |-> FALSE]],
     [kind |-> "throw", value |-> [message |-> "fetch failed"]],
     [kind |-> "throw", value |-> [message |-> "aborted"]]}

\* the resolved value of an invocation that delivered undefined or null
NoResult == [status |-> 0, ok |-> FALSE]

\* result && result.status === 429
isRateLimited(out) ==
    out.kind = "result" /\ out.value # NoResult /\ out.value.status = 429

\* result && result.status === 401
isAuthError(out) ==
    out.kind = "result" /\ out.value # NoResult /\ out.value.status = 401

\* the loop test with one attempt too many
loopContinuesOnceMore(attempt, maxRetries) == attempt <= maxRetries + 1

\* attempt <= maxRetries
loopContinues(attempt, maxRetries) == attempt <= maxRetries

RECURSIVE Pow2(_)
Pow2(n) == IF n <= 0 THEN 1 ELSE 2 * Pow2(n - 1)

\* API_CONFIG.RETRY_DELAY_BASE * Math.pow(2, attempt - 1)
backoffDelay(attempt) == RETRY_DELAY_BASE * Pow2(attempt - 1)

InitRetry == IdleExcept({"retry"}) /\ RetryIdle

\* the loop head with attempt = a: invoke the wrapped call or fall out of
\* the loop and return null
LoopHead(a) ==
    /\ retryAttempt' = a
    /\ IF loopContinues(a, retryMax')
       THEN /\ retryPc' = "calling"
            /\ retryInvocations' = retryInvocations + 1
            /\ retryReturn' = [kind |-> "pending"]
       ELSE /\ retryPc' = "done"
            /\ retryInvocations' = retryInvocations
            /\ retryReturn' = [kind |-> "null"]

\* apiCallWithRetry(apiCall, maxRetries) up to its first await
ApiCallWithRetry(maxRetries) ==
    /\ retryPc = "idle"
    /\ retryMax' = maxRetries
    /\ LoopHead(1)
    /\ UNCHANGED <<retryOutcomes, retryDelay>>
    /\ UNCHANGED exceptRetry

\* the awaited invocation settles: lines 483-508 up to the next await
CallSettles(out) ==
    /\ retryPc = "calling"
    /\ retryOutcomes' = Append(retryOutcomes, out)
    /\ IF out.kind = "throw"
       THEN IF retryAttempt = retryMax
            THEN /\ retryPc' = "done"
                 /\ retryReturn' = [kind |-> "throw", index |-> Len(retryOutcomes')]
                 /\ UNCHANGED retryDelay
            ELSE /\ retryPc' = "sleeping"
                 /\ retryDelay' = backoffDelay(retryAttempt)
                 /\ UNCHANGED retryReturn
       ELSE IF isRateLimited(out)
            THEN /\ retryPc' = "sleeping"
                 /\ retryDelay' = backoffDelay(retryAttempt)
                 /\ UNCHANGED retryReturn
       ELSE IF isAuthError(out)
            THEN /\ retryPc' = "done"
                 /\ retryReturn' = [kind |-> "null"]
                 /\ UNCHANGED retryDelay
       ELSE /\ retryPc' = "done"
            /\ retryReturn' = [kind |-> "result", index |-> Len(retryOutcomes')]
            /\ UNCHANGED retryDelay
    /\ UNCHANGED <<retryMax, retryAttempt, retryInvocations>>
    /\ UNCHANGED exceptRetry

\* the setTimeout of the backoff fires: attempt++ and the loop head
SleepEnds ==
    /\ retryPc = "sleeping"
    /\ retryDelay' = 0
    /\ UNCHANGED retryMax
    /\ LoopHead(retryAttempt + 1)
    /\ UNCHANGED retryOutcomes
    /\ UNCHANGED exceptRetry

NextRetry ==
    \/ \E m \in 0..MaxRetries : ApiCallWithRetry(m)
    \/ \E out \in CallOutcomes : CallSettles(out)
    \/ SleepEnds

SpecRetry == InitRetry /\ [][NextRetry]_vars

\* every fetch of the wrapped call settles and every timer fires
SpecRetryLive ==
    /\ SpecRetry
    /\ WF_vars(\E out \in CallOutcomes : CallSettles(out))
    /\ WF_vars(SleepEnds)

-----------------------------------------------------------------------------
(* saveProjectsToDatabase and getProjectTrends (SpecTrends)                 *)

MaxSnapshots == 3

MaxScriptSteps == 2

\* one hour (60 * 60 * 1000 ms) on a clock counted in seconds
HOUR_S == 3600

\* the time between two runs of the script
ScriptAdvances == {HOUR_S, 25 * HOUR_S}

Periods == {"1h", "24h", "1w"}

Limits == {1, 10}

\* a project as the API lists it: id, likes, comments
apiProject(id, likes, comments) ==
    [id |-> id, likes |-> likes, comments |-> comments]

\* the lists saved by one run: one project, two projects, and a list that
\* names the same project twice
ApiLists ==
    {<<apiProject(1, 1, 0)>>,
     <<apiProject(1, 2, 1)>>,
     <<apiProject(2, 1, 1)>>,
     <<apiProject(1, 1, 0), apiProject(2, 0, 1)>>,
     <<apiProject(1, 1, 0), apiProject(1, 2, 0)>>}

\* lines 363-371: the switch on period
hoursBack(period) ==
    CASE period = "1h" -> 1
      [] period = "24h" -> 24
      [] period = "7d" -> 24 * 7
      [] period = "30d" -> 24 * 30
      [] period = "all" -> 24 * 365
      [] OTHER -> 1

\* line 373; ISO timestamps of equal width compare as their instants do
timeThreshold(t, period) == t - hoursBack(period) * HOUR_S

\* the rows a query without the WHERE of time_filtered_metrics would see
allRows(metrics, threshold) == 1..Len(metrics)

\* time_filtered_metrics: the rows with recorded_at >= ?
windowRows(metrics, threshold) ==
    {i \in 1..Len(metrics) : metrics[i].recorded_at >= threshold}

\* PARTITION BY project_id
rowsOf(metrics, rows, id) == {i \in rows : metrics[i].project_id = id}

\* the rows ROW_NUMBER() ... ORDER BY recorded_at DESC may number 1
latestRows(metrics, rows) ==
    {i \in rows :
        \A j \in rows : metrics[j].recorded_at <= metrics[i].recorded_at}

\* the rows ROW_NUMBER() ... ORDER BY recorded_at ASC may number 1
earliestRows(metrics, rows) ==
    {i \in rows :
        \A j \in rows : metrics[j].recorded_at >= metrics[i].recorded_at}

\* the history query of one trend: its rows in the window, oldest first
\* (rows are inserted in the order of their timestamps)
historyOf(metrics, threshold, id) ==
    LET RECURSIVE from(_)
        from(i) ==
            IF i > Len(metrics) THEN <<>>
            ELSE (IF metrics[i].project_id = id
                     /\ metrics[i].recorded_at >= threshold
                  THEN <<metrics[i]>> ELSE <<>>) \o from(i + 1)
    IN from(1)

\* one row of the SELECT for the latest row l and the earliest row e
trendRow(metrics, threshold, id, l, e) ==
    [id |-> id,
     current_likes |-> metrics[l].likes,
     current_comments |-> metrics[l].comments,
     start_likes |-> metrics[e].likes,
     start_comments |-> metrics[e].comments,
     likes_change |-> metrics[l].likes - metrics[e].likes,
     comments_change |-> metrics[l].comments - metrics[e].comments,
     latest_time |-> metrics[l].recorded_at,
     earliest_time |-> metrics[e].recorded_at,
     history |-> historyOf(metrics, threshold, id)]

\* the WHERE of the SELECT
trendKept(r) == r.likes_change > 0 \/ r.comments_change > 0

\* the ORDER BY of the SELECT: a comes strictly before b
trendBefore(a, b) ==
    \/ a.likes_change > b.likes_change
    \/ /\ a.likes_change = b.likes_change
       /\ \/ a.comments_change > b.comments_change
          \/ /\ a.comments_change = b.comments_change
             /\ a.current_likes > b.current_likes

\* the results the query can deliver: one latest and one earliest row per
\* project (any of the rows that tie on recorded_at), the rows kept by the
\* WHERE in an order the ORDER BY allows, cut at limit
trendResults(projectIds, metrics, threshold, limit) ==
    LET rows == windowRows(metrics, threshold)
        ids == {id \in projectIds : rowsOf(metrics, rows, id) # {}}
        picks == {f \in [ids -> (1..Len(metrics)) \X (1..Len(metrics))] :
                    \A id \in ids :
                      /\ f[id][1] \in latestRows(metrics,
                                                 rowsOf(metrics, rows, id))
                      /\ f[id][2] \in earliestRows(metrics,
                                                   rowsOf(metrics, rows, id))}
        kept(f) == {r \in {trendRow(metrics, threshold, id,
                                     f[id][1], f[id][2]) : id \in ids} :
                      trendKept(r)}
        orders(S) == {q \in [1..Cardinality(S) -> S] :
                        /\ \A i, j \in DOMAIN q : i # j => q[i] # q[j]
                        /\ \A i, j \in DOMAIN q :
                              i < j => ~trendBefore(q[j], q[i])}
        cut(q) == IF Len(q) > limit THEN SubSeq(q, 1, limit) ELSE q
    IN UNION {{cut(q) : q \in orders(kept(f))} : f \in picks}

InitTrends == IdleExcept({"trends"}) /\ TrendsIdle

\* saveProjectsToDatabase: every project is upserted into projects and gets
\* a row of project_metrics stamped with the time of the run
SaveProjectsToDatabase(list) ==
    /\ trends = [t |-> "pending"]
    /\ Len(dbMetrics) + Len(list) <= MaxSnapshots
    /\ dbProjects' = dbProjects \cup {list[i].id : i \in DOMAIN list}
    /\ dbMetrics' = dbMetrics \o
          [i \in DOMAIN list |->
             [project_id |-> list[i].id, likes |-> list[i].likes,
              comments |-> list[i].comments, recorded_at |-> scriptNow]]
    /\ UNCHANGED <<scriptNow, scriptSteps, trendQuery, trends>>
    /\ UNCHANGED exceptTrends

\* time passes between two runs
ScriptTime(d) ==
    /\ trends = [t |-> "pending"]
    /\ scriptSteps < MaxScriptSteps
    /\ scriptSteps' = scriptSteps + 1
    /\ scriptNow' = scriptNow + d
    /\ UNCHANGED <<dbProjects, dbMetrics, trendQuery, trends>>
    /\ UNCHANGED exceptTrends

\* getProjectTrends(db, period, limit)
GetProjectTrends(period, limit) ==
    /\ trends = [t |-> "pending"]
    /\ trendQuery' = [period |-> period,
                      threshold |-> timeThreshold(scriptNow, period)]
    /\ \E q \in trendResults(dbProjects, dbMetrics,
                              timeThreshold(scriptNow, period), limit) :
          trends' = Arr(q)
    /\ UNCHANGED <<dbProjects, dbMetrics, scriptNow, scriptSteps>>
    /\ UNCHANGED exceptTrends

NextTrends ==
    \/ \E list \in ApiLists : SaveProjectsToDatabase(list)
    \/ \E d \in ScriptAdvances : ScriptTime(d)
    \/ \E period \in Periods, limit \in Limits :
          GetProjectTrends(period, limit)

SpecTrends == InitTrends /\ [][NextTrends]_vars

-----------------------------------------------------------------------------
(* The main run of the standalone script (SpecMain)                         *)

sTrack == <<"d", "e", "f", "i">>

sGaming == <<"g", "a", "m", "i", "n", "g">>

\* a project as the API or the cached file lists it
scriptProject(tracks, handle) ==
    Obj([id |-> Num(1), name |-> Str(sHakata), likes |-> Num(3),
         tracks |-> tracks, twitterHandle |-> handle])

\* the lists the API or the cached file can hold: a well-formed project, a
\* project whose tracks is one text, a project whose handle is a number
ScriptLists ==
    {Arr(<<scriptProject(Arr(<<Str(sDeFi)>>), Str(sHakata))>>),
     Arr(<<scriptProject(Str(sDeFi), Str(sHakata))>>),
     Arr(<<scriptProject(Arr(<<Str(sDeFi)>>), Num(12345))>>)}

\* what the fetch of fetchProjectsFromAPI delivers
ScriptResponses ==
    {[kind |-> "reject"], [kind |-> "status", status |-> 503],
     [kind |-> "json", body |-> Obj([projects |-> Arr(<<>>)])]}
    \cup {[kind |-> "json", body |-> Obj([projects |-> list])] :
            list \in ScriptLists}

\* the newest data/colosseum_all_projects_*.json: none, or its content
CachedFiles ==
    {Null} \cup {Obj([projects |-> list]) : list \in ScriptLists}
           \cup {list \in ScriptLists : list.v[1].v.tracks.t = "array"}

MainOptions ==
    [offline : BOOLEAN, track : {<<>>, sTrack, sGaming},
     export : {"", "csv"}]

MainEnvs ==
    [cached : CachedFiles, socialEnabled : BOOLEAN, writable : BOOLEAN]

\* the outcome of a call: a value or a thrown error
Returned(v) == [threw |-> FALSE, value |-> v]

Threw == [threw |-> TRUE, value |-> Undef]

\* fetchProjectsFromAPI of the script, lines 708-735
scriptFetchProjects(resp) ==
    IF resp.kind = "reject" THEN Threw
    ELSE IF ~ResponseOk(resp) THEN Threw
    ELSE IF Falsy(resp.body) \/ Falsy(Prop(resp.body, "projects"))
            \/ ZeroLength(Prop(resp.body, "projects"))
         THEN Threw
    ELSE Returned(Prop(resp.body, "projects"))

\* loadProjectsFromCache, lines 737-746
loadProjectsFromCache(cached) ==
    IF cached = Null THEN Threw
    ELSE IF ~Falsy(Prop(cached, "projects"))
         THEN Returned(Prop(cached, "projects"))
    ELSE Returned(cached)

\* fetchTwitterDataForProjects throws: project.twitterHandle.trim() on a
\* handle that is not a string (lines 1139-1141)
twitterDataThrows(env, list) ==
    /\ env.socialEnabled
    /\ \E i \in 1..Len(list.v) :
          LET h == Prop(list.v[i], "twitterHandle") IN
          ~Falsy(h) /\ h.t # "string"

\* a truthy tracks without the methods of an array
tracksNotArray(project) ==
    LET tr == Prop(project, "tracks") IN ~Falsy(tr) /\ tr.t # "array"

\* applyFilters throws: p.tracks.some on tracks that is no array
applyFiltersThrows(list, opts) ==
    /\ opts.track # <<>>
    /\ \E i \in 1..Len(list.v) : tracksNotArray(list.v[i])

\* applyFilters with the track filter, lines 749-759
applyFilters(list, opts) ==
    IF opts.track = <<>> THEN list.v
    ELSE LET keep ==
               {p \in Range(list.v) :
                  /\ ~Falsy(Prop(p, "tracks"))
                  /\ \E k \in 1..Len(Prop(p, "tracks").v) :
                        Includes(ToLowerCase(Prop(p, "tracks").v[k].v),
                                 ToLowerCase(opts.track))}
         IN FilterSeq(list.v, keep)

\* displayProjectsTable and displayTrackAnalysis throw: tracks.join and
\* tracks.forEach on tracks that is no array
displayThrows(shown) ==
    \E i \in 1..Len(shown) : tracksNotArray(shown[i])

\* the export throws: fs.writeFileSync into a directory that refuses it
exportThrows(opts, env) == opts.export = "csv" /\ ~env.writable

\* lines 1044-1094 after projects is set: filters, display and export;
\* the exit code of the run
mainTail(list, opts, env) ==
    IF applyFiltersThrows(list, opts) THEN 1
    ELSE IF Len(applyFilters(list, opts)) = 0 THEN 0
    ELSE IF displayThrows(applyFilters(list, opts)) THEN 1
    ELSE IF exportThrows(opts, env) THEN 1
    ELSE 0

InitMain == IdleExcept({"main"}) /\ MainIdle

\* main() up to its first await: --offline loads the cached file and runs
\* to the end, otherwise the API is asked
Main(opts, env) ==
    /\ mainPc = "idle"
    /\ mainOptions' = opts
    /\ mainEnv' = env
    /\ apiDelivered' = FALSE
    /\ IF opts.offline
       THEN LET c == loadProjectsFromCache(env.cached) IN
            /\ mainPc' = "done"
            /\ mainProjects' = c.value
            /\ dataSource' = IF c.threw THEN "none" ELSE "cache"
            /\ exitCode' = IF c.threw THEN Num(1)
                            ELSE Num(mainTail(c.value, opts, env))
       ELSE /\ mainPc' = "fetching"
            /\ UNCHANGED <<mainProjects, dataSource, exitCode>>
    /\ UNCHANGED exceptMain

\* the fetch of fetchProjectsFromAPI settles: the inner try and its catch
\* (lines 1020-1041), then the rest of main
FetchSettles(resp) ==
    LET api == scriptFetchProjects(resp)
        apiPathThrew == api.threw \/ twitterDataThrows(mainEnv, api.value)
        c == loadProjectsFromCache(mainEnv.cached)
    IN /\ mainPc = "fetching"
       /\ mainPc' = "done"
       /\ apiDelivered' = ~api.threw
       /\ IF ~apiPathThrew
          THEN /\ mainProjects' = api.value
               /\ dataSource' = "api"
               /\ exitCode' = Num(mainTail(api.value, mainOptions, mainEnv))
          ELSE IF c.threw
               THEN /\ mainProjects' = api.value
                    /\ dataSource' = "none"
                    /\ exitCode' = Num(1)
          ELSE /\ mainProjects' = c.value
               /\ dataSource' = "cache"
               /\ exitCode' =
                     IF twitterDataThrows(mainEnv, c.value) THEN Num(1)
                     ELSE Num(mainTail(c.value, mainOptions, mainEnv))
       /\ UNCHANGED <<mainOptions, mainEnv>>
       /\ UNCHANGED exceptMain

NextMain ==
    \/ \E opts \in MainOptions, env \in MainEnvs : Main(opts, env)
    \/ \E resp \in ScriptResponses : FetchSettles(resp)

SpecMain == InitMain /\ [][NextMain]_vars

-----------------------------------------------------------------------------
(* ProjectsTable: pagination state and the rows shown (SpecTable)           *)

MaxItems == 45

\* the result lists handed to the table: 1..n in both orders
TableLists ==
    LET lens == {0, 1, 10, 21, MaxItems, 2 * MaxItems + 11} IN
    {[i \in 1..n |-> i] : n \in lens}
    \cup {[i \in 1..n |-> n + 1 - i] : n \in lens}

\* line 155: Math.max(1, Math.ceil(projectCount / itemsPerPage))
totalPages(projectCount, size) ==
    IF projectCount = 0 THEN 1 ELSE (projectCount + size - 1) \div size

DigitChars == <<"0", "1", "2", "3", "4", "5", "6", "7", "8", "9">>

\* Number.prototype.toString() of a non-negative integer
RECURSIVE numberToString(_)
numberToString(n) ==
    IF n < 10 THEN <<DigitChars[n + 1]>>
    ELSE numberToString(n \div 10) \o <<DigitChars[(n % 10) + 1]>>

\* parseInt of a string without sign or leading blanks: the value of its
\* leading digits, NaN when it starts with none
RECURSIVE parseDigits(_, _)
parseDigits(str, acc) ==
    IF str = <<>> \/ Head(str) \notin Range(DigitChars) THEN acc
    ELSE parseDigits(Tail(str),
                     10 * acc + (CHOOSE d \in 0..9 :
                                    DigitChars[d + 1] = Head(str)))

parseInt(str) ==
    IF str = <<>> \/ Head(str) \notin Range(DigitChars) THEN NaN
    ELSE Num(parseDigits(str, 0))

\* the effect of lines 206-211 without its reset
pageAfterEffectsKept(page, total) == page

\* lines 206-211: the page after the effect ran
pageAfterEffects(page, total) ==
    IF page > total /\ total > 0 THEN 1 ELSE page

\* the columns whose headers call handleSort
SortColumns == {"country", "likes", "comments", "teamSize"}

InitTable == IdleExcept({"table"}) /\ TableIdle

\* handlePageChange(page), called by the pagination controls, and the
\* render that follows
HandlePageChange(page) ==
    LET total == totalPages(Len(tableProjects), itemsPerPage)
        clamped == IF page > total THEN total ELSE page
        p == IF clamped < 1 THEN 1 ELSE clamped
    IN /\ ~tableEffects
       /\ currentPage' = p
       /\ tableRows' = paginatedProjects(tableProjects, p, itemsPerPage)
       /\ tableEffects' = TRUE
       /\ UNCHANGED <<tableProjects, itemsPerPage, tableSort>>
       /\ UNCHANGED <<dashVars, retryVars, trendVars, mainVars, recentVars>>

\* handlePageSizeChange(newSize), called by the page-size select, and the
\* render that follows
HandlePageSizeChange(newSize) ==
    LET parsed == parseInt(newSize)
        size == IF Falsy(parsed) THEN DEFAULT_PAGE_SIZE ELSE parsed.v
    IN /\ ~tableEffects
       /\ itemsPerPage' = size
       /\ currentPage' = 1
       /\ tableRows' = paginatedProjects(tableProjects, 1, size)
       /\ tableEffects' = TRUE
       /\ UNCHANGED <<tableProjects, tableSort>>
       /\ UNCHANGED <<dashVars, retryVars, trendVars, mainVars, recentVars>>

\* handleSort(column) with onFiltersChange given: the new order goes to the
\* parent and the page is reset; the re-ordered list arrives later as a new
\* projects prop
HandleSort(column) ==
    /\ ~tableEffects
    /\ tableSort' = [sortBy |-> column,
                     sortOrder |-> IF tableSort.sortBy = column
                                      /\ tableSort.sortOrder = "desc"
                                   THEN "asc" ELSE "desc"]
    /\ currentPage' = 1
    /\ tableRows' = paginatedProjects(tableProjects, 1, itemsPerPage)
    /\ tableEffects' = TRUE
    /\ UNCHANGED <<tableProjects, itemsPerPage>>
    /\ UNCHANGED <<dashVars, retryVars, trendVars, mainVars, recentVars>>

\* the parent passes a new result list: the render with the page as it is
ProjectsChange(list) ==
    /\ list # tableProjects
    /\ tableProjects' = list
    /\ tableRows' = paginatedProjects(list, currentPage, itemsPerPage)
    /\ tableEffects' = TRUE
    /\ UNCHANGED <<currentPage, itemsPerPage, tableSort>>
    /\ UNCHANGED <<dashVars, retryVars, trendVars, mainVars, recentVars>>

\* the effects of the last render run, and the render a state change of
\* theirs causes
RunEffects ==
    LET p == pageAfterEffects(currentPage,
                              totalPages(Len(tableProjects), itemsPerPage))
    IN /\ tableEffects
       /\ tableEffects' = FALSE
       /\ currentPage' = p
       /\ tableRows' = paginatedProjects(tableProjects, p, itemsPerPage)
       /\ UNCHANGED <<tableProjects, itemsPerPage, tableSort>>
       /\ UNCHANGED <<dashVars, retryVars, trendVars, mainVars, recentVars>>

NextTable ==
    \/ \E page \in 0..(totalPages(Len(tableProjects), itemsPerPage) + 1) :
          HandlePageChange(page)
    \/ \E size \in PAGE_SIZE_OPTIONS :
          HandlePageSizeChange(numberToString(size))
    \/ \E column \in SortColumns : HandleSort(column)
    \/ \E list \in TableLists : ProjectsChange(list)
    \/ RunEffects

SpecTable == InitTable /\ [][NextTable]_vars

-----------------------------------------------------------------------------
(* useRecentSearches: the list of recent queries (SpecRecent)               *)

MaxRecentCalls == 4

MaxHistory == 3

\* Array.prototype.slice(0, end) for end >= 0
sliceFromStart(list, end) ==
    [i \in 1..(IF end < Len(list) THEN end ELSE Len(list)) |-> list[i]]

\* the updater of addRecentSearch without the removal of the old entry
addedNoDedupe(prev, query, maxSearches) ==
    sliceFromStart(<<query>> \o prev, maxSearches)

\* the updater of addRecentSearch (lines 195-208)
added(prev, query, maxSearches) ==
    LET filtered == FilterSeq(prev, {x \in Range(prev) : x # query})
    IN sliceFromStart(<<query>> \o filtered, maxSearches)

\* the updater of removeRecentSearch (lines 212-222)
removed(prev, query) ==
    FilterSeq(prev, {x \in Range(prev) : x # query})

\* the hook is mounted with a positive maxSearches and an empty localStorage
InitRecent ==
    /\ IdleExcept({"recent"})
    /\ recentSearches = <<>>
    /\ recentMax \in 1..MaxHistory
    /\ recentStamp = [q \in RecentQueries |-> 0]
    /\ recentCalls = 0

\* addRecentSearch(query)
AddRecentSearch(query) ==
    /\ recentCalls < MaxRecentCalls
    /\ recentCalls' = recentCalls + 1
    /\ IF Trim(query) = <<>>
       THEN UNCHANGED <<recentSearches, recentStamp>>
       ELSE /\ recentSearches' = added(recentSearches, query, recentMax)
            /\ recentStamp' = [recentStamp EXCEPT ![query] = recentCalls + 1]
    /\ UNCHANGED recentMax
    /\ UNCHANGED <<dashVars, retryVars, trendVars, mainVars, tableVars>>

\* removeRecentSearch(query)
RemoveRecentSearch(query) ==
    /\ recentCalls < MaxRecentCalls
    /\ recentCalls' = recentCalls + 1
    /\ recentSearches' = removed(recentSearches, query)
    /\ UNCHANGED <<recentMax, recentStamp>>
    /\ UNCHANGED <<dashVars, retryVars, trendVars, mainVars, tableVars>>

\* clearRecentSearches()
ClearRecentSearches ==
    /\ recentCalls < MaxRecentCalls
    /\ recentCalls' = recentCalls + 1
    /\ recentSearches' = <<>>
    /\ UNCHANGED <<recentMax, recentStamp>>
    /\ UNCHANGED <<dashVars, retryVars, trendVars, mainVars, tableVars>>

NextRecent ==
    \/ \E q \in RecentQueries : AddRecentSearch(q)
    \/ \E q \in RecentQueries : RemoveRecentSearch(q)
    \/ ClearRecentSearches

SpecRecent == InitRecent /\ [][NextRecent]_vars

-----------------------------------------------------------------------------
(* Properties *)

RecomputeTimers == {t \in timers : t.kind = "recompute"}

UrlTimers == {t \in timers : t.kind = "url"}

\* the delay classes by length of the search text
TextDelay(n) ==
    IF n = 0 THEN 100 ELSE IF n <= 2 THEN 600 ELSE IF n <= 5 THEN 500 ELSE 400

\* a step in which updateFilters produced a new filters object
FiltersChanged == filtersId' # filtersId

\* a step in which a due recompute timer ran
RecomputeFired ==
    /\ filtersId' = filtersId
    /\ \E t \in RecomputeTimers : t.remaining = 0 /\ t \notin timers'

\* C1: after every dataset change and every filter change, the list
\* returned for the applied spec is the one the current index gives, never
\* a result cached for a previous dataset.
C1_ResultFromCurrentIndex ==
    filteredProjects = computeResults(searchIndex(projects), debouncedFilters)

\* C2: every record of a performSearch result has its likes inside
\* likesRange and its team size inside teamSizeRange, whatever the ranges.
C2_RangeFilters ==
    changes > 0 =>
        \A i \in 1..Len(filteredProjects) :
            LET p == filteredProjects[i] IN
            /\ debouncedFilters.likesRange[1] <= OrZero(p.likes)
            /\ OrZero(p.likes) <= debouncedFilters.likesRange[2]
            /\ debouncedFilters.teamSizeRange[1] <= indexEntry(p).teamSize
            /\ indexEntry(p).teamSize <= debouncedFilters.teamSizeRange[2]

CacheKeys(c) == [i \in 1..Len(c) |-> c[i].key]

\* C3: the cache never holds more than 20 entries; a call that hits leaves
\* the cache as it is, a call that misses below capacity appends its key, and
\* a call that misses at capacity drops exactly the earliest-inserted key and
\* appends its own.
C3_CacheBound ==
    /\ [](Len(cache) <= 20)
    /\ [][changes' # changes =>
            LET key == cacheKey(debouncedFilters') IN
            IF cacheHas(cache, key) THEN cache' = cache
            ELSE IF Len(cache) = 20
                 THEN CacheKeys(cache') =
                        Append(Tail(CacheKeys(cache)), key)
                 ELSE CacheKeys(cache') = Append(CacheKeys(cache), key)]_vars

\* C3 witness: a call missed at capacity and an entry was evicted.
C3_Witness ==
    /\ Len(cache) = 20
    /\ lastCall.kind = "miss"
    /\ changes > 20
    /\ ~cacheHas(cache, cacheKey([DEFAULT_FILTERS EXCEPT
                                     !.likesRange = <<1, 100>>]))

\* C4: a performSearch call with a spec already searched on the unchanged
\* index returns the list a fresh computation gives (the list of the first
\* call), is a cache hit and leaves the cache unchanged.
C4_RepeatHitsCache ==
    [][(changes' # changes
        /\ \E i \in 1..Len(cache) : cache[i].key = cacheKey(debouncedFilters'))
       => /\ lastCall'.kind = "hit"
          /\ cache' = cache
          /\ filteredProjects' =
                computeResults(searchIndex(projects), debouncedFilters')]_vars

\* C4 witness: a spec was searched a second time and a non-empty list came
\* back from the cache.
C4_Witness ==
    /\ lastCall.kind = "hit"
    /\ changes >= 2
    /\ Len(filteredProjects) > 0
    /\ Len(cache) >= 2

\* C5: in the text-search branch a record whose name contains the lowercased
\* query comes before every record matched only through its description.
C5_NameBeforeDescription ==
    (changes > 0 /\ searchActive(debouncedFilters)) =>
        \A i, j \in 1..Len(filteredProjects) :
            LET q == ToLowerCase(debouncedFilters.search)
                A == filteredProjects[i]
                B == filteredProjects[j]
            IN (/\ Includes(ToLowerCase(A.name), q)
                /\ ~Includes(ToLowerCase(B.name), q)
                /\ Includes(ToLowerCase(B.description), q))
               => i < j

\* C6: at most one recompute timer is pending, the pending timer carries the
\* most recent filters, and whenever a spec is applied it is the current
\* filter spec.
C6_LastWriteWins ==
    /\ [](/\ Cardinality(RecomputeTimers) <= 1
          /\ \A t \in RecomputeTimers : t.f = filters /\ t.fid = filtersId)
    /\ [][debouncedId' # debouncedId =>
            debouncedFilters' = filters /\ debouncedId' = filtersId]_vars

\* C6 witness: two filter changes were made and none was applied, so the
\* timer of the first was replaced by the one now pending.
C6_Witness ==
    /\ projects = EmptyList
    /\ filtersId >= 2
    /\ debouncedId = 0
    /\ \E t \in RecomputeTimers : t.fid = filtersId /\ t.remaining < t.delay

C9_UrlSyncIndependent ==
    /\ [](/\ Cardinality(UrlTimers) <= 1
          /\ \A t \in UrlTimers : t.delay = 800 /\ t.f = filters)
    /\ [][/\ FiltersChanged =>
                \E t \in UrlTimers' :
                    /\ t.remaining = 800
                    /\ t.id \notin {o.id : o \in UrlTimers}
          /\ RecomputeFired => (UrlTimers' = UrlTimers /\ url' = url)
          /\ url' # url => url' = urlParams(filters)]_vars

\* C9 witness: a changed spec was applied by the recompute timer and later
\* written to the URL by the URL timer.
C9_Witness ==
    /\ url # <<>>
    /\ url = urlParams(filters)
    /\ filtersId > 0
    /\ debouncedId = filtersId
    /\ UrlTimers = {}

\* the record carries a numeric id the validator accepts
HasNumericId == raw.t = "object" /\ ~Falsy(Prop(raw, "id"))
                /\ Typeof(Prop(raw, "id")) = "number"

\* the record carries a non-empty string name
HasStringName == raw.t = "object" /\ ~Falsy(Prop(raw, "name"))
                 /\ Typeof(Prop(raw, "name")) = "string"

\* C10: validateProject returns null exactly when the record lacks a numeric
\* id or a non-empty string name, whatever the other fields hold.
C10_NullOnlyWithoutIdOrName ==
    validated # Pending =>
        (validated = Null <=> ~(HasNumericId /\ HasStringName))

\* the positions of the payload whose item validates
ValidPositions ==
    {i \in 1..Len(batchData.v) : validateProject(batchData.v[i]) # Null}

\* C11: validateProjects throws for no payload; its output is no longer than
\* the payload and holds, in payload order, the validated form of exactly
\* the items that validate.
C11_BatchNeverThrows ==
    validProjects # Pending =>
        /\ validProjects.t = "array"
        /\ batchData.t # "array" => validProjects.v = <<>>
        /\ batchData.t = "array" =>
              /\ Len(validProjects.v) <= Len(batchData.v)
              /\ Len(validProjects.v) = Cardinality(ValidPositions)
              /\ \A i \in ValidPositions :
                    validProjects.v[Cardinality({j \in ValidPositions :
                                                    j <= i})]
                        = validateProject(batchData.v[i])

\* C11 witness: a payload of two items whose first makes the sanitizer throw
\* gave the one-element list of the second.
C11_Witness ==
    /\ batchData.t = "array" /\ Len(batchData.v) = 2
    /\ batchData.v[1] = rawBadDescription
    /\ batchData.v[2] = rawOther
    /\ validProjects.t = "array"
    /\ Len(validProjects.v) = 1
    /\ validProjects.v[1].id = 2

\* C12: the teamSize of every validated project is the length of its
\* validated teamMembers list, or 1 when that list is empty.
C12_TeamSizeFromValidatedMembers ==
    (validated \notin {Pending, Null, Undef}) =>
        validated.teamSize =
            Num(IF Len(validated.teamMembers) = 0 THEN 1
                ELSE Len(validated.teamMembers))

\* String.prototype.includes after lowercasing
IncludesCI(s, pat) == Includes(ToLowerCase(s), pat)

\* C13: the output of sanitizeString holds no "<", no ">", no occurrence of
\* "javascript:" or "data:" in any letter case, and at most 1000
\* characters.
C13_SanitizedClean ==
    sanitizeOutput # Pending =>
        /\ \A i \in 1..Len(sanitizeOutput.v) :
              sanitizeOutput.v[i] \notin {"<", ">"}
        /\ ~IncludesCI(sanitizeOutput.v, JavascriptScheme)
        /\ ~IncludesCI(sanitizeOutput.v, DataScheme)
        /\ Len(sanitizeOutput.v) <= 1000

\* the key of record a is below the key of record b: likes and comments as
\* numbers, name and country as strings
KeyBelow(a, b, sortBy) ==
    CASE sortBy = "likes" -> OrZero(a.likes) < OrZero(b.likes)
      [] sortBy = "comments" -> OrZero(a.comments) < OrZero(b.comments)
      [] sortBy = "name" -> StrLess(a.name, b.name)
      [] sortBy = "country" -> StrLess(a.country, b.country)

\* C14: without an active text search and with sortBy one of likes,
\* comments, name, country, the result is ordered by that key: no record is
\* followed by one with a larger key for desc, nor by one with a smaller key
\* for asc.
C14_SortedByKey ==
    (/\ changes > 0
     /\ ~searchActive(debouncedFilters)
     /\ debouncedFilters.sortBy \in {"likes", "comments", "name", "country"})
    => \A i, j \in 1..Len(filteredProjects) :
          i < j =>
            IF debouncedFilters.sortOrder = "desc"
            THEN ~KeyBelow(filteredProjects[i], filteredProjects[j],
                           debouncedFilters.sortBy)
            ELSE ~KeyBelow(filteredProjects[j], filteredProjects[i],
                           debouncedFilters.sortBy)

\* C14 witness: three records sorted by name ascending came back in an
\* order other than the order of the project list.
C14_Witness ==
    /\ changes > 0
    /\ projects = ThreeProjects
    /\ debouncedFilters.search = <<>>
    /\ debouncedFilters.sortBy = "name"
    /\ debouncedFilters.sortOrder = "asc"
    /\ [i \in 1..Len(filteredProjects) |-> filteredProjects[i].name]
          = <<sDex, sHakata, sOther>>

\* a step in which the page was loaded again
PageLoaded == pageLoads' # pageLoads

\* C15: when the page is loaded from the URL that URL sync wrote for the
\* filters S, the initial filters have the search, sortBy, sortOrder, tracks
\* and countries of S; every parameter absent from the URL gives its default.
C15_UrlRoundTrip ==
    [][PageLoaded =>
        /\ url = urlParams(filters) =>
              /\ filters'.search = filters.search
              /\ filters'.sortBy = filters.sortBy
              /\ filters'.sortOrder = filters.sortOrder
              /\ filters'.tracks = filters.tracks
              /\ filters'.countries = filters.countries
        /\ ~paramHas(url, "q") => filters'.search = <<>>
        /\ ~paramHas(url, "sort") => filters'.sortBy = "likes"
        /\ ~paramHas(url, "order") => filters'.sortOrder = "desc"
        /\ ~paramHas(url, "tracks") => filters'.tracks = <<>>
        /\ ~paramHas(url, "countries") => filters'.countries = <<>>]_vars

\* the response is one of the failures: request error, non-2xx status,
\* empty payload, or no item surviving validation
ResponseFails(resp) ==
    \/ resp.kind = "reject"
    \/ resp.kind = "status" /\ resp.status \notin 200..299
    \/ resp.kind = "json"
       /\ (Falsy(resp.body) \/ ZeroLength(resp.body)
           \/ validateProjects(resp.body) = <<>>)

\* a step in which a fetchData call ended on a failing response
FetchFailed == settled' # settled /\ ResponseFails(settled'.response)

\* C16 as stated: a failing fetchData call sets error, leaves projects and
\* lastFetch as they were and ends with loading = false.
C16_FailedFetchEndsNotLoading ==
    [][FetchFailed =>
        /\ error' # Null
        /\ providerProjects' = providerProjects
        /\ lastFetch' = lastFetch
        /\ loading' = FALSE]_vars

\* C16 amended: a failing fetchData call sets error and leaves projects and
\* lastFetch as they were; a foreground call ends with loading = false, a
\* background call leaves loading as it was.
C16_FailedFetchKeepsData ==
    [][FetchFailed =>
        /\ error' # Null
        /\ providerProjects' = providerProjects
        /\ lastFetch' = lastFetch
        /\ refreshCount' = refreshCount
        /\ loading' = IF settled'.call.bg THEN loading ELSE FALSE]_vars

\* C16 witness: after a fetch that loaded data, a later foreground fetch
\* failed: the error is set, the loaded list is still there, nothing loads.
C16_Witness ==
    /\ settled # Null
    /\ ~settled.call.bg
    /\ ResponseFails(settled.response)
    /\ error # Null
    /\ refreshCount = 1
    /\ providerProjects # <<>>
    /\ lastFetch # Null
    /\ loading = FALSE
    /\ fetches = {}


\* the status of a response, 0 when none was sent yet
StatusOf(r) == IF "status" \in DOMAIN r THEN r.status ELSE 0

\* no window [t, t + 60 s) holds more than 10 admitted requests
WindowBound ==
    \A i \in 1..Len(admitted) :
        Cardinality({j \in 1..Len(admitted) :
                        /\ admitted[i] <= admitted[j]
                        /\ admitted[j] < admitted[i] + LIMITER_WINDOW_MS})
            <= LIMITER_MAX_CALLS

\* the limiter is exhausted for a request arriving now
Exhausted ==
    Len(liveCalls(limiterCalls, serverNow)) >= LIMITER_MAX_CALLS

\* a step of GET that handles a request arriving at an exhausted limiter
RejectedArrival == requests' = requests + 1 /\ Exhausted

\* the request is answered 429 without touching the upstream or the cache
AnsweredTooMany ==
    /\ StatusOf(lastResponse') = 429
    /\ upstreamCalls' = upstreamCalls
    /\ upstream' = upstream
    /\ routeCache' = routeCache

\* C17 as stated: at most 10 requests are admitted in any 60-second window,
\* and every request arriving at an exhausted limiter is answered 429 with a
\* Retry-After of at least 1 second, without an upstream call and without a
\* change of the response cache
C17_RetryAfterAtLeastOne ==
    /\ [](WindowBound)
    /\ [][RejectedArrival =>
            AnsweredTooMany /\ lastResponse'.retryAfter >= 1]_vars

\* C17 amended: the same, but Retry-After is the remaining time of the oldest
\* admitted call at a second clock read, rounded up to seconds: at least 1
\* while that call is still inside the window at the second read, and 0
\* when its window ended between the limiter's check and that read
C17_RetryAfterFromSecondRead ==
    /\ [](WindowBound)
    /\ [][RejectedArrival =>
            /\ AnsweredTooMany
            /\ lastResponse'.retryAfter <= LIMITER_WINDOW_MS \div 1000
            /\ IF serverNow' - oldestCall(limiterCalls') < LIMITER_WINDOW_MS
               THEN lastResponse'.retryAfter >= 1
               ELSE lastResponse'.retryAfter = 0]_vars

\* a request was refused with a positive Retry-After while the cache was
\* filled and ten requests had been admitted
C17_Witness ==
    /\ StatusOf(lastResponse) = 429
    /\ lastResponse.retryAfter >= 1
    /\ Len(limiterCalls) = LIMITER_MAX_CALLS
    /\ Len(admitted) >= LIMITER_MAX_CALLS
    /\ ~Falsy(routeCache.data)
    /\ upstreamCalls >= 1


\* the outcomes after which the wrapped call is invoked again
Retried(out) == out.kind = "throw" \/ isRateLimited(out)

\* the function ended as its last outcome prescribes
EndedProperly ==
    LET n == Len(retryOutcomes) IN
    IF n = 0 \/ (n > 0 /\ isRateLimited(retryOutcomes[n]))
    THEN retryReturn = [kind |-> "null"]
    ELSE IF isAuthError(retryOutcomes[n])
         THEN retryReturn = [kind |-> "null"]
    ELSE IF retryOutcomes[n].kind = "throw"
         THEN retryReturn = [kind |-> "throw", index |-> n]
    ELSE retryReturn = [kind |-> "result", index |-> n]

\* the safety part of C18
RetrySafe ==
    /\ retryInvocations <= retryMax
    /\ retryInvocations =
          Len(retryOutcomes) + (IF retryPc = "calling" THEN 1 ELSE 0)
    /\ \A i \in 1..Len(retryOutcomes) :
          /\ i < retryInvocations => Retried(retryOutcomes[i])
          /\ isAuthError(retryOutcomes[i]) =>
                /\ retryInvocations = i
                /\ retryPc = "done"
                /\ retryReturn = [kind |-> "null"]
    /\ retryPc = "done" => EndedProperly

\* C18: apiCallWithRetry invokes the wrapped call at most maxRetries times,
\* re-invokes only after a 429 result or a thrown error, returns null with
\* no further invocation once a 401 result is seen, and always ends by
\* returning a result, returning null or rethrowing the last error
C18_RetryBoundedAndTerminates ==
    /\ [](RetrySafe)
    /\ (retryPc \in {"calling", "sleeping"}) ~> (retryPc = "done")

\* all maxRetries invocations were made, after a 429 and after a thrown
\* error, and the last error was rethrown
C18_Witness ==
    /\ retryPc = "done"
    /\ retryMax = MaxRetries
    /\ retryInvocations = retryMax
    /\ \E i \in 1..Len(retryOutcomes) : isRateLimited(retryOutcomes[i])
    /\ retryReturn = [kind |-> "throw", index |-> retryMax]


\* the snapshots of project id recorded inside the window of the last query
InWindow(id) ==
    {i \in 1..Len(dbMetrics) :
        /\ dbMetrics[i].project_id = id
        /\ dbMetrics[i].recorded_at >= trendQuery.threshold}

\* C19: every record returned by getProjectTrends carries the likes and
\* comments of a latest snapshot minus those of an earliest snapshot of its
\* project inside the requested window, and at least one of the two changes
\* is strictly positive
C19_TrendsAreWindowChanges ==
    trends.t = "array" =>
        \A k \in 1..Len(trends.v) :
            LET r == trends.v[k]
                W == InWindow(r.id)
            IN /\ r.likes_change > 0 \/ r.comments_change > 0
               /\ \E l \in W, e \in W :
                    /\ \A j \in W :
                          /\ dbMetrics[j].recorded_at
                                <= dbMetrics[l].recorded_at
                          /\ dbMetrics[j].recorded_at
                                >= dbMetrics[e].recorded_at
                    /\ r.likes_change
                          = dbMetrics[l].likes - dbMetrics[e].likes
                    /\ r.comments_change
                          = dbMetrics[l].comments - dbMetrics[e].comments

\* a trend with more likes and no more comments was returned for a project
\* that also has an older snapshot, with other likes, outside the window
C19_Witness ==
    /\ trends.t = "array"
    /\ \E k \in 1..Len(trends.v) :
          /\ trends.v[k].likes_change > 0
          /\ trends.v[k].comments_change <= 0
          /\ \E i \in 1..Len(dbMetrics) :
                /\ dbMetrics[i].project_id = trends.v[k].id
                /\ dbMetrics[i].recorded_at < trendQuery.threshold
                /\ dbMetrics[i].likes # trends.v[k].start_likes


\* the run had no way to obtain project data
NoDataObtainable ==
    /\ mainEnv.cached = Null
    /\ mainOptions.offline \/ ~apiDelivered

\* C20: the main run exits with code 0 whenever project data is obtained
\* (from the API, or from the cached file) and exits non-zero exactly when
\* no data can be obtained: no cached file and either --offline or a failed
\* API call
C20_ExitCodeFollowsData ==
    mainPc = "done" =>
        IF NoDataObtainable THEN exitCode # Num(0) ELSE exitCode = Num(0)


\* the team size of a record as the search index takes it
TeamSizeOf(p) == indexEntry(p).teamSize

\* C21: without an active text search and with sortBy = teamSize, the
\* result is ordered by teamSize in the requested sortOrder: no record is
\* followed by one with a larger team for desc, nor by one with a smaller
\* team for asc
C21_SortedByTeamSize ==
    (/\ changes > 0
     /\ ~searchActive(debouncedFilters)
     /\ debouncedFilters.sortBy = "teamSize")
    => \A i, j \in 1..Len(filteredProjects) :
          i < j =>
            IF debouncedFilters.sortOrder = "desc"
            THEN TeamSizeOf(filteredProjects[i])
                    >= TeamSizeOf(filteredProjects[j])
            ELSE TeamSizeOf(filteredProjects[i])
                    <= TeamSizeOf(filteredProjects[j])


\* C22: each change of the filter spec leaves exactly one recompute timer
\* pending, and the firing of a recompute timer leaves none: it schedules
\* no further timer and no second application of the spec it applied
C22_OneTimerPerChange ==
    [][/\ FiltersChanged => Cardinality(RecomputeTimers') = 1
       /\ RecomputeFired => RecomputeTimers' = {}]_vars


\* the position of a result record in the project list
PositionOf(p) == CHOOSE k \in 1..Len(projects) : projects[k] = p

\* the score the relevance sort reads for a record: scores.get(id)
RecordedScore(p) ==
    scoreOfId(searchIndex(projects), ToLowerCase(debouncedFilters.search),
              p.id)

\* C23: with an active text search the result is in relevance order alone:
\* every spec that differs only in sortBy or sortOrder gives the same
\* ordered result, scores never increase along the result, and records of
\* equal score stand in the order of the project list
C23_RelevanceOrderOnly ==
    (changes > 0 /\ searchActive(debouncedFilters)) =>
        /\ \A sb \in {"likes", "comments", "name", "country", "teamSize"},
              so \in {"asc", "desc"} :
              filteredProjects =
                computeResults(searchIndex(projects),
                               [debouncedFilters EXCEPT !.sortBy = sb,
                                                        !.sortOrder = so])
        /\ \A i, j \in 1..Len(filteredProjects) :
              i < j =>
                /\ RecordedScore(filteredProjects[i])
                      >= RecordedScore(filteredProjects[j])
                /\ RecordedScore(filteredProjects[i])
                      = RecordedScore(filteredProjects[j])
                   => PositionOf(filteredProjects[i])
                        < PositionOf(filteredProjects[j])

\* a text search sorted by name ascending returned two records of equal
\* score in list order, against the order of their names
C23_Witness ==
    /\ changes > 0
    /\ searchActive(debouncedFilters)
    /\ debouncedFilters.sortBy = "name"
    /\ debouncedFilters.sortOrder = "asc"
    /\ \E i, j \in 1..Len(filteredProjects) :
          /\ i < j
          /\ RecordedScore(filteredProjects[i])
                = RecordedScore(filteredProjects[j])
          /\ StrLess(filteredProjects[j].name, filteredProjects[i].name)


\* one of the record's tracks equals one of the requested tracks when case
\* is ignored
TrackMatches(p, requested) ==
    \E t \in Range(p.tracks), r \in Range(requested) :
        ToLowerCase(t) = ToLowerCase(r)

\* the records the applied spec keeps when its track list is emptied
KeptIgnoringTracks ==
    Range(computeResults(searchIndex(projects),
                         [debouncedFilters EXCEPT !.tracks = <<>>]))

\* C24: with a non-empty requested track list, a record that passes the
\* other filters is kept exactly when one of its tracks equals one of the
\* requested tracks with case ignored; a record without tracks is never kept
C24_TrackFilterIsOr ==
    (changes > 0 /\ Len(debouncedFilters.tracks) > 0) =>
        /\ Range(filteredProjects)
             = {p \in KeptIgnoringTracks :
                  TrackMatches(p, debouncedFilters.tracks)}
        /\ \A p \in Range(filteredProjects) : Len(p.tracks) > 0

\* two requested tracks kept two records that share no track, one of them
\* and dropped a record without tracks
C24_Witness ==
    /\ changes > 0
    /\ Len(debouncedFilters.tracks) = 2
    /\ \E p, q \in Range(filteredProjects) :
          Range(p.tracks) \cap Range(q.tracks) = {} /\ p # q
    /\ \E p \in KeptIgnoringTracks :
          Len(p.tracks) = 0 /\ p \notin Range(filteredProjects)


\* a request arrives
Arrival == requests' = requests + 1

\* the cache holds a list stored by a request that arrived less than five
\* minutes ago
CacheFresh ==
    ~Falsy(routeCache.data) /\ serverNow - routeCache.timestamp < CACHE_TTL

\* the arriving request is answered with the cached list as it is
ServedFromCache ==
    /\ lastResponse' = [status |-> 200, xCache |-> "HIT",
                        body |-> routeCache.data]
    /\ upstreamCalls' = upstreamCalls
    /\ upstream' = upstream
    /\ routeCache' = routeCache

\* the cache becomes the validated list of a successful upstream response,
\* which is also the body of the answer
CacheReplacedBySuccess ==
    /\ \E out \in UpstreamOutcomes :
          /\ ~upstreamResult(out).threw
          /\ routeCache'.data = Arr(upstreamResult(out).value)
    /\ lastResponse' = [status |-> 200, xCache |-> "MISS",
                        body |-> routeCache'.data]

JustTimedOut ==
    /\ StatusOf(lastResponse) = 504
    /\ Len(admitted) > 0
    /\ serverNow - admitted[Len(admitted)] <= 1

\* C26: a request that arrives right after an upstream timeout was answered
\* with 504 is answered without another upstream call
C26_TimeoutShortCached ==
    [][(Arrival /\ JustTimedOut) => upstreamCalls' = upstreamCalls]_vars


\* the changes a user makes while typing a name, clearing it and sorting
TypingUpdates ==
    {[search |-> <<>>], [search |-> <<"h">>], [search |-> sHakata],
     [sortBy |-> "name"]}

NextTyping ==
    \/ \E u \in TypingUpdates : UpdateFilters(u)
    \/ \E t \in timers : FireRecompute(t)
    \/ \E t \in timers : FireUrlSync(t)
    \/ Tick

\* the hook under an event loop that lets time pass and runs every due
\* timer callback
SpecLive ==
    /\ Init /\ [][NextTyping]_vars
    /\ WF_vars(Tick)
    /\ WF_vars(\E t \in timers : FireRecompute(t))
    /\ WF_vars(\E t \in timers : FireUrlSync(t))

\* the applied spec is the current one, the searching flag is down and no
\* recompute timer is pending
Quiescent ==
    /\ debouncedFilters = filters
    /\ ~isSearching
    /\ RecomputeTimers = {}

\* C27: every run has finitely many changes; after the last of them the hook
\* becomes quiescent within finitely many timer firings and stays so, and
\* between two changes a quiescent hook keeps its filters, applied spec,
\* searching flag and result list until the next change
C27_Quiescence ==
    /\ <>[]Quiescent
    /\ [][(Quiescent /\ changes' = changes) =>
             /\ Quiescent'
             /\ UNCHANGED <<filters, debouncedFilters, isSearching,
                            filteredProjects>>]_vars

\* the hook is quiescent with the typed text applied, after the second
\* timer that follows a change of the applied search text has run
C27_Witness ==
    /\ Quiescent
    /\ changes = 1
    /\ debouncedFilters.search = sHakata
    /\ UrlTimers # {}


\* the call whose response arrives in this step
Settling(c) == c \in fetches /\ c \notin fetches'

\* the response that arrived last went to a call started after c, one of
\* the two a background refresh, and put its list into the state
NewerDataInState(c) ==
    /\ "call" \in DOMAIN settled
    /\ settled.call.id > c.id
    /\ (settled.call.bg \/ c.bg)
    /\ ~fetchDataTry(settled.response).threw
    /\ providerProjects = fetchDataTry(settled.response).value

\* C28: when fetches overlap, the response of the older fetch leaves the
\* list of the newer fetch in the state
C28_OlderFetchKeepsNewerData ==
    [][\A c \in fetches :
          (Settling(c) /\ NewerDataInState(c)) =>
             providerProjects' = providerProjects]_vars


\* the items at positions lo .. hi - 1 of the list, counted from 0
ItemsAt(list, lo, hi) ==
    [i \in 1..(IF hi > lo THEN hi - lo ELSE 0) |-> list[lo + i]]

\* C29: once the effects have run, the current page lies in 1..totalPages
\* and the rows shown are the items at positions
\* (currentPage-1)*itemsPerPage .. min(currentPage*itemsPerPage, n)-1 of
\* the result list, in order
C29_PageInRangeAndRowsAreThePage ==
    ~tableEffects =>
        LET n == Len(tableProjects)
            pages == IF n = 0 THEN 1
                     ELSE IF n % itemsPerPage = 0 THEN n \div itemsPerPage
                     ELSE n \div itemsPerPage + 1
            hi == IF currentPage * itemsPerPage < n
                  THEN currentPage * itemsPerPage ELSE n
        IN /\ currentPage \in 1..pages
           /\ tableRows = ItemsAt(tableProjects,
                                  (currentPage - 1) * itemsPerPage, hi)

\* the last page of a list of 21 items shown 10 to a page holds one row
C29_Witness ==
    /\ ~tableEffects
    /\ itemsPerPage = 10
    /\ Len(tableProjects) = 21
    /\ currentPage = 3
    /\ Len(tableRows) = 1


\* a call put a query at the head of the list
AddedAtHead ==
    /\ Len(recentSearches') > 0
    /\ recentStamp'[recentSearches'[1]] = recentCalls'

\* a call that added no query and removed none
CallWithoutEffect ==
    /\ recentCalls' # recentCalls
    /\ recentStamp' = recentStamp
    /\ Len(recentSearches') >= Len(recentSearches)

\* no query twice, later additions first, at most maxSearches queries and no
\* blank one
RecentInOrder ==
    /\ (\A i \in 1..Len(recentSearches) :
          \A j \in 1..Len(recentSearches) :
             i < j => (/\ recentSearches[i] # recentSearches[j]
                       /\ recentStamp[recentSearches[i]]
                            > recentStamp[recentSearches[j]]))
    /\ Len(recentSearches) <= recentMax
    /\ (\A k \in 1..Len(recentSearches) : Trim(recentSearches[k]) # <<>>)

====
